---- MODULE Spec2Model ----
(***************************************************************************)
(* Model of the ruthie-voicebot session engine.                            *)
(*                                                                         *)
(*  - TTLDict (app/inbound_deepgram.py): the bounded, time-evicting        *)
(*    session registry.  SpecReg runs its operations one at a time;        *)
(*    SpecConc runs them from several threads, statement by statement,     *)
(*    under the registry's lock.                                           *)
(*  - call_n8n_action (app/n8n_client.py): the retrying gateway call.      *)
(*    SpecN8n runs its loop against every sequence of gateway outcomes.    *)
(*  - ConversationContext (app/conversation_context.py): sentiment,        *)
(*    counters and silence escalation of one session.  SpecSilence runs    *)
(*    it against the clock, SpecCtx against the user texts.                *)
(*  - sanitize_for_tts (app/tts_sanitizer.py): what is removed from and    *)
(*    rewritten in a text before it is spoken.  SpecSan runs it, and runs  *)
(*    it again on its own output, over the texts made of a few pieces.     *)
(*    SpecTpl runs validate_template_variables over short templates.       *)
(*  - the relays (app/browser_ws.py, app/inbound_deepgram.py): one         *)
(*    connection from the setup handshake to teardown.  SpecRelay runs     *)
(*    its tasks against every short sequence of frames of the client and   *)
(*    of the agent.  SpecWatch runs the silence watchdog against the       *)
(*    inbound pump, SpecCall the provider's status callbacks against one   *)
(*    telephony call.                                                      *)
(*  - FUNCTION_DEFINITIONS (app/function_definitions.py): the catalogue    *)
(*    of the agent's functions.  SpecCatalogue examines its entries.       *)
(*  - the payload of call_n8n_action.  SpecPayload builds it for every     *)
(*    choice of the caller's parameters.                                   *)
(***************************************************************************)
EXTENDS Integers, Sequences, FiniteSets, TLC

(***************************************************************************)
(* Bounds of the model.                                                    *)
(***************************************************************************)
NumKeys == 3
NumThreads == 2
NumConcKeys == 2
MaxCalls == 2
MaxSize == 2
Ttl == 1
MaxTime == 2
MaxClock == 19
MaxHistory == 1
MaxCount == 3
MaxPieces == 2
MaxTemplateLen == 4
MaxFrames == 2
MaxSilence == 38
MaxRoom == 1
MaxCallbacks == 2

Keys == 1..NumKeys
Threads == 1..NumThreads
ConcKeys == 1..NumConcKeys
Fields == {"status", "duration"}
Absent == "-"

VARIABLES
    dict,       \* TTLDict._dict: insertion-ordered sequence of [key, ts, val]
    now,        \* the clock read by datetime.utcnow()
    last,       \* the call that ended last and what it returned
    written,    \* per key: the entry of the latest set, until deleted or evicted
    insOrder    \* the keys in the order in which they entered the store

VARIABLES
    n8nPc,      \* call_n8n_action: "request", "sleep" or "done"
    attempt,    \* the loop variable of `for attempt in range(MAX_RETRIES)`
    issued,     \* the gateway's answers to the requests issued so far
    last_error, \* the local variable last_error
    delay,      \* the delay (ms) of the pending asyncio.sleep
    result      \* the envelope returned

VARIABLES
    lock,       \* TTLDict._lock: 0 when free, else the thread that holds it
    th,         \* per thread: the call it is in, its position, locals and result
    seqDict     \* the store as the calls completed so far leave it, one after another

VARIABLES
    ctxNow,                 \* the clock read by datetime.utcnow(), in seconds
    history,                \* ConversationContext.history
    user_sentiment,         \* ConversationContext.user_sentiment
    clarification_count,    \* ConversationContext.clarification_count
    retry_count,            \* ConversationContext.retry_count
    last_user_speech_time,  \* ConversationContext.last_user_speech_time
    silence_count,          \* ConversationContext.silence_count
    ctxLast,                \* the context call that ended last and what it returned
    fired                   \* the silence levels fired since the last user turn

VARIABLES
    sanIn,      \* the text handed to sanitize_for_tts
    sanOut,     \* the text it returned
    sanStage    \* "input", "once" (sanitized) or "twice" (its output sanitized again)

VARIABLES
    tplTemplate,    \* the template handed to validate_template_variables
    tplParams,      \* its params
    tplOut,         \* what the call returned, or the exception it raised
    tplStage        \* "input" or "done"

VARIABLES
    catPrefix,  \* the first word of the function names that are looked for
    catParam,   \* the parameter that those functions are to require
    catIndex,   \* how many functions of the catalogue have been looked at
    catPassed,  \* how many of them begin with the word and require the parameter
    catFailed   \* how many of them begin with the word and do not

VARIABLES
    action,         \* call_n8n_action: its argument action
    parameters,     \* its argument parameters
    session_id,     \* its argument session_id
    n8nPayload      \* its local variable payload, once built

VARIABLES
    conn    \* one connection of a relay: its phase, its tasks, both sockets
            \* and what went through them, and the handler's locals

regVars == <<dict, now, last, written, insOrder>>

n8nVars == <<n8nPc, attempt, issued, last_error, delay, result>>

concVars == <<lock, th, seqDict>>

ctxVars == <<ctxNow, history, user_sentiment, clarification_count, retry_count,
             last_user_speech_time, silence_count, ctxLast, fired>>

sanVars == <<sanIn, sanOut, sanStage>>

tplVars == <<tplTemplate, tplParams, tplOut, tplStage>>

relayVars == <<conn>>

catVars == <<catPrefix, catParam, catIndex, catPassed, catFailed>>

payloadVars == <<action, parameters, session_id, n8nPayload>>

dataVars == <<catVars, payloadVars>>

restVars == <<ctxVars, sanVars, tplVars, relayVars, dataVars>>

nonRegVars == <<n8nVars, concVars, restVars>>

nonCtxVars == <<regVars, n8nVars, concVars, sanVars, tplVars, relayVars, dataVars>>

nonSanVars == <<regVars, n8nVars, concVars, ctxVars, tplVars, relayVars, dataVars>>

nonTplVars == <<regVars, n8nVars, concVars, ctxVars, sanVars, relayVars, dataVars>>

vars == <<dict, now, last, written, insOrder,
          n8nPc, attempt, issued, last_error, delay, result,
          lock, th, seqDict,
          ctxNow, history, user_sentiment, clarification_count, retry_count,
          last_user_speech_time, silence_count, ctxLast, fired,
          sanIn, sanOut, sanStage,
          tplTemplate, tplParams, tplOut, tplStage,
          conn,
          catPrefix, catParam, catIndex, catPassed, catFailed,
          action, parameters, session_id, n8nPayload>>

(***************************************************************************)
(* Values.  A stored value is a dict (a map from field names to field      *)
(* values, "-" standing for a field the dict does not have) or something   *)
(* that is not a dict.                                                     *)
(***************************************************************************)
NoFields == [f \in Fields |-> Absent]
DictVal(fs) == [kind |-> "dict", f |-> fs]
StrVal == [kind |-> "str", f |-> NoFields]
NoneVal == [kind |-> "none", f |-> NoFields]

SetVals ==
    { StrVal,
      DictVal([NoFields EXCEPT !["status"] = "initiated"]) }

UpdateArgs ==
    { [NoFields EXCEPT !["duration"] = "7"] }

\* isinstance(val, dict)
IsDict(val) == val.kind = "dict"

\* (variant: the stored dict is replaced by the updates)
DictUpdate_replace(val, updates) == [val EXCEPT !.f = updates]

\* val.update(updates)
DictUpdate(val, updates) ==
    [val EXCEPT !.f = [f \in Fields |-> IF updates[f] # Absent THEN updates[f] ELSE val.f[f]]]

(***************************************************************************)
(* OrderedDict helpers.                                                    *)
(***************************************************************************)
KeysOf(d) == {d[i].key : i \in 1..Len(d)}

HasKey(d, k) == k \in KeysOf(d)

IndexOf(d, k) == CHOOSE i \in 1..Len(d) : d[i].key = k

Entry(d, k) == d[IndexOf(d, k)]

\* self._dict[key] = (ts, val): an existing key keeps its position
SetItem(d, k, ts, val) ==
    LET e == [key |-> k, ts |-> ts, val |-> val]
    IN  IF HasKey(d, k) THEN [d EXCEPT ![IndexOf(d, k)] = e] ELSE Append(d, e)

\* del self._dict[key] / self._dict.pop(key, None)
DelItem(d, k) == SelectSeq(d, LAMBDA e : e.key # k)

\* self._dict.popitem(last=False)
PopItemFirst(d) == Tail(d)

(***************************************************************************)
(* TTLDict.                                                                *)
(***************************************************************************)
\* now - ts >= timedelta(seconds=self._ttl)
IsExpired(ts, n) == n - ts >= Ttl

\* (variant: an entry still counts as live at exactly ts + ttl)
IsLive_inclusive(ts, n) == n - ts <= Ttl

\* datetime.utcnow() - ts < timedelta(seconds=self._ttl)
IsLive(ts, n) == n - ts < Ttl

evict_expired(d, n) == SelectSeq(d, LAMBDA e : ~IsExpired(e.ts, n))

\* (variant: room is made only once the store is over its capacity)
set_room_late(d, n) ==
    LET d1 == evict_expired(d, n)
    IN  IF Len(d1) > MaxSize THEN PopItemFirst(d1) ELSE d1

\* the store of set() after the sweep and the capacity check, before the insert
set_room(d, n) ==
    LET d1 == evict_expired(d, n)
    IN  IF Len(d1) >= MaxSize THEN PopItemFirst(d1) ELSE d1

\* set(): n1 is the clock read by the sweep, n2 the clock read for the stamp
TTLDict_set(d, k, v, n1, n2) == SetItem(set_room(d, n1), k, n2, v)

TTLDict_get_ret(d, k, n) ==
    IF HasKey(d, k) /\ IsLive(Entry(d, k).ts, n) THEN Entry(d, k).val ELSE NoneVal

\* (variant: a hit moves the entry to the end, as an LRU cache would)
TTLDict_get_lru(d, k, n) ==
    IF HasKey(d, k) /\ ~IsLive(Entry(d, k).ts, n) THEN DelItem(d, k)
    ELSE IF HasKey(d, k) THEN Append(DelItem(d, k), Entry(d, k))
    ELSE d

TTLDict_get(d, k, n) ==
    IF HasKey(d, k) /\ ~IsLive(Entry(d, k).ts, n) THEN DelItem(d, k) ELSE d

TTLDict_update_ret(d, k, n) ==
    HasKey(d, k) /\ IsLive(Entry(d, k).ts, n) /\ IsDict(Entry(d, k).val)

\* (variant: an expired entry is dropped on the way out, as get does)
TTLDict_update_lazy(d, k, updates, n) ==
    IF TTLDict_update_ret(d, k, n)
    THEN SetItem(d, k, Entry(d, k).ts, DictUpdate(Entry(d, k).val, updates))
    ELSE IF HasKey(d, k) /\ ~IsLive(Entry(d, k).ts, n) THEN DelItem(d, k)
    ELSE d

TTLDict_update(d, k, updates, n) ==
    IF TTLDict_update_ret(d, k, n)
    THEN SetItem(d, k, Entry(d, k).ts, DictUpdate(Entry(d, k).val, updates))
    ELSE d

TTLDict_delete(d, k) == DelItem(d, k)

TTLDict_contains_ret(d, k, n) == HasKey(d, k) /\ IsLive(Entry(d, k).ts, n)

TTLDict_contains(d, k, n) ==
    IF HasKey(d, k) /\ ~IsLive(Entry(d, k).ts, n) THEN DelItem(d, k) ELSE d

TTLDict_values(d, n) == evict_expired(d, n)

TTLDict_values_ret(d, n) ==
    LET d1 == evict_expired(d, n) IN [i \in 1..Len(d1) |-> d1[i].val]

TTLDict_len(d, n) == evict_expired(d, n)

TTLDict_len_ret(d, n) == Len(evict_expired(d, n))

(***************************************************************************)
(* Bookkeeping of the history, for the properties.                         *)
(***************************************************************************)
NoEntry == [ts |-> -1, val |-> NoneVal]

\* the keys that entered the store, oldest first, after a call that left
\* the keys `kept` stored and then inserted `added`
OrderAfter(order, kept, added) ==
    LET o == SelectSeq(order, LAMBDA k : k \in kept)
    IN  IF added \in kept \/ added = 0 THEN o ELSE Append(o, added)

\* the entries of sets that time t has not yet caught up with: t < ts + ttl
Unexpired(w, t) == [k \in Keys |-> IF w[k].ts >= 0 /\ t < w[k].ts + Ttl THEN w[k] ELSE NoEntry]

Result(op, k, ret, flags) == [op |-> op, key |-> k, ret |-> ret, flags |-> flags]

(***************************************************************************)
(* The registry, one call at a time.                                       *)
(***************************************************************************)
RegIdle ==
    /\ dict = <<>>
    /\ now = 0
    /\ last = Result("init", 0, <<>>, {})
    /\ written = [k \in Keys |-> NoEntry]
    /\ insOrder = <<>>

Tick ==
    /\ now < MaxTime
    /\ now' = now + 1
    /\ last' = Result("tick", 0, <<>>, {})
    /\ written' = Unexpired(written, now')
    /\ UNCHANGED <<dict, insOrder>>

Set(k, v, dt) ==
    LET room == set_room(dict, now)
        live == evict_expired(dict, now)
        popped == KeysOf(live) \ KeysOf(room)
        flags == (IF Len(live) >= MaxSize THEN {"full"} ELSE {})
                 \cup (IF HasKey(live, k) THEN {} ELSE {"new"})
    IN  /\ now + dt <= MaxTime
        /\ now' = now + dt
        /\ dict' = TTLDict_set(dict, k, v, now, now')
        /\ last' = Result("set", k, <<>>, flags)
        /\ written' = Unexpired([j \in Keys |->
                                    IF j = k THEN [ts |-> now', val |-> v]
                                    ELSE IF j \in popped THEN NoEntry
                                    ELSE written[j]], now')
        /\ insOrder' = OrderAfter(insOrder, KeysOf(room), k)

Get(k) ==
    /\ dict' = TTLDict_get(dict, k, now)
    /\ last' = Result("get", k, <<TTLDict_get_ret(dict, k, now)>>,
                      IF HasKey(dict, k) /\ now - Entry(dict, k).ts = Ttl THEN {"at_ttl"}
                      ELSE IF HasKey(dict, k) /\ now - Entry(dict, k).ts > Ttl THEN {"past_ttl"}
                      ELSE IF HasKey(dict, k) THEN {"before_ttl"}
                      ELSE {})
    /\ insOrder' = OrderAfter(insOrder, KeysOf(dict'), 0)
    /\ UNCHANGED <<now, written>>

Update(k, updates) ==
    LET ok == TTLDict_update_ret(dict, k, now)
    IN  /\ dict' = TTLDict_update(dict, k, updates, now)
        /\ last' = Result("update", k, <<ok>>,
                          (IF ~HasKey(dict, k) THEN {"absent"} ELSE {})
                          \cup (IF HasKey(dict, k) /\ ~IsLive(Entry(dict, k).ts, now)
                                THEN {"expired"} ELSE {})
                          \cup (IF HasKey(dict, k) /\ ~IsDict(Entry(dict, k).val)
                                THEN {"not_dict"} ELSE {}))
        /\ written' = IF ok /\ written[k] # NoEntry
                      THEN [written EXCEPT ![k].val = DictUpdate(@, updates)]
                      ELSE written
        /\ insOrder' = OrderAfter(insOrder, KeysOf(dict'), 0)
        /\ UNCHANGED now

Delete(k) ==
    /\ dict' = TTLDict_delete(dict, k)
    /\ last' = Result("delete", k, <<>>, {})
    /\ written' = [written EXCEPT ![k] = NoEntry]
    /\ insOrder' = OrderAfter(insOrder, KeysOf(dict'), 0)
    /\ UNCHANGED now

Contains(k) ==
    /\ dict' = TTLDict_contains(dict, k, now)
    /\ last' = Result("contains", k, <<TTLDict_contains_ret(dict, k, now)>>, {})
    /\ insOrder' = OrderAfter(insOrder, KeysOf(dict'), 0)
    /\ UNCHANGED <<now, written>>

Values ==
    /\ dict' = TTLDict_values(dict, now)
    /\ last' = Result("values", 0, TTLDict_values_ret(dict, now), {})
    /\ insOrder' = OrderAfter(insOrder, KeysOf(dict'), 0)
    /\ UNCHANGED <<now, written>>

LenCall ==
    /\ dict' = TTLDict_len(dict, now)
    /\ last' = Result("len", 0, <<TTLDict_len_ret(dict, now)>>, {})
    /\ insOrder' = OrderAfter(insOrder, KeysOf(dict'), 0)
    /\ UNCHANGED <<now, written>>

NextReg ==
    \/ Tick /\ UNCHANGED nonRegVars
    \/ \E k \in Keys, v \in SetVals, dt \in 0..1 : Set(k, v, dt) /\ UNCHANGED nonRegVars
    \/ \E k \in Keys : Get(k) /\ UNCHANGED nonRegVars
    \/ \E k \in Keys, u \in UpdateArgs : Update(k, u) /\ UNCHANGED nonRegVars
    \/ \E k \in Keys : Delete(k) /\ UNCHANGED nonRegVars
    \/ \E k \in Keys : Contains(k) /\ UNCHANGED nonRegVars
    \/ Values /\ UNCHANGED nonRegVars
    \/ LenCall /\ UNCHANGED nonRegVars

(***************************************************************************)
(* The registry called from several threads: every method body runs        *)
(* statement by statement inside `with self._lock`.                        *)
(***************************************************************************)
NoCall == [pc |-> "idle", op |-> "none", key |-> 0, val |-> NoneVal, upd |-> NoFields,
           n1 |-> 0, n2 |-> 0, todo |-> {}, ret |-> <<>>, calls |-> 0, lin |-> TRUE]

ConcIdle ==
    /\ lock = 0
    /\ th = [t \in Threads |-> NoCall]
    /\ seqDict = <<>>

\* the stores the callers find: empty, or holding the entry that the
\* inbound-call webhook has set for a call
ConcStores ==
    { <<>>,
      <<[key |-> 1, ts |-> 0, val |-> DictVal([NoFields EXCEPT !["status"] = "initiated"])]>> }

\* the first statement of each method body
FirstPc(op) ==
    CASE op = "set" -> "set_evict"
      [] op = "get" -> "get_test"
      [] op = "update" -> "upd_test"
      [] op = "delete" -> "del_pop"
      [] op = "contains" -> "in_test"
      [] op = "values" -> "val_evict"
      [] op = "len" -> "len_evict"

\* (variant: the body is entered without regard to the lock)
LockFree_unchecked(l) == TRUE

\* threading.Lock: acquire blocks until the lock is free
LockFree(l) == l = 0

\* what the call leaves in the store when it runs alone on the store d
SeqEffect(d, c) ==
    CASE c.op = "set" -> TTLDict_set(d, c.key, c.val, c.n1, c.n2)
      [] c.op = "get" -> TTLDict_get(d, c.key, c.n1)
      [] c.op = "update" -> TTLDict_update(d, c.key, c.upd, c.n1)
      [] c.op = "delete" -> TTLDict_delete(d, c.key)
      [] c.op = "contains" -> TTLDict_contains(d, c.key, c.n1)
      [] c.op = "values" -> TTLDict_values(d, c.n1)
      [] c.op = "len" -> TTLDict_len(d, c.n1)

\* what the call returns when it runs alone on the store d
SeqReturn(d, c) ==
    CASE c.op = "set" -> <<>>
      [] c.op = "get" -> <<TTLDict_get_ret(d, c.key, c.n1)>>
      [] c.op = "update" -> <<TTLDict_update_ret(d, c.key, c.n1)>>
      [] c.op = "delete" -> <<>>
      [] c.op = "contains" -> <<TTLDict_contains_ret(d, c.key, c.n1)>>
      [] c.op = "values" -> TTLDict_values_ret(d, c.n1)
      [] c.op = "len" -> <<TTLDict_len_ret(d, c.n1)>>

RECURSIVE CallsMade(_)
CallsMade(n) == IF n = 0 THEN 0 ELSE th[n].calls + CallsMade(n - 1)

At(t, pc) == th[t].pc = pc

Goto(t, pc) == th' = [th EXCEPT ![t].pc = pc]

\* a thread calls a method of the registry
Call(t, op, k, v, u) ==
    /\ At(t, "idle")
    /\ CallsMade(NumThreads) < MaxCalls
    /\ th' = [th EXCEPT ![t] = [NoCall EXCEPT !.pc = "acquire", !.op = op, !.key = k,
                                              !.val = v, !.upd = u,
                                              !.calls = th[t].calls + 1, !.lin = th[t].lin]]
    /\ UNCHANGED <<dict, now, lock, seqDict>>

\* with self._lock:
Acquire(t) ==
    /\ At(t, "acquire")
    /\ LockFree(lock)
    /\ lock' = t
    /\ Goto(t, FirstPc(th[t].op))
    /\ UNCHANGED <<dict, now, seqDict>>

\* leaving the with block: the call returns
Release(t) ==
    /\ At(t, "release")
    /\ lock' = 0
    /\ seqDict' = SeqEffect(seqDict, th[t])
    /\ th' = [th EXCEPT ![t] = [NoCall EXCEPT
                  !.calls = th[t].calls,
                  !.lin = th[t].lin /\ th[t].ret = SeqReturn(seqDict, th[t])]]
    /\ UNCHANGED <<dict, now>>

\* set: self._evict_expired()
SetEvict(t) ==
    /\ At(t, "set_evict")
    /\ dict' = evict_expired(dict, now)
    /\ th' = [th EXCEPT ![t].pc = "set_pop", ![t].n1 = now]
    /\ UNCHANGED <<now, lock, seqDict>>

\* set: if len(self._dict) >= self._max_size: self._dict.popitem(last=False)
SetPop(t) ==
    /\ At(t, "set_pop")
    /\ dict' = IF Len(dict) >= MaxSize THEN PopItemFirst(dict) ELSE dict
    /\ Goto(t, "set_store")
    /\ UNCHANGED <<now, lock, seqDict>>

\* set: self._dict[key] = (datetime.utcnow(), value)
SetStore(t) ==
    /\ At(t, "set_store")
    /\ dict' = SetItem(dict, th[t].key, now, th[t].val)
    /\ th' = [th EXCEPT ![t].pc = "release", ![t].n2 = now]
    /\ UNCHANGED <<now, lock, seqDict>>

\* get / __contains__: if key in self._dict
LookupTest(t) ==
    /\ At(t, "get_test") \/ At(t, "in_test")
    /\ th' = [th EXCEPT ![t].pc = IF HasKey(dict, th[t].key)
                                  THEN (IF At(t, "get_test") THEN "get_read" ELSE "in_read")
                                  ELSE "release",
                        ![t].ret = IF At(t, "get_test") THEN <<NoneVal>> ELSE <<FALSE>>]
    /\ UNCHANGED <<dict, now, lock, seqDict>>

\* get: ts, val = self._dict[key]; if utcnow() - ts < ttl: return val
GetRead(t) ==
    /\ At(t, "get_read")
    /\ th' = [th EXCEPT ![t].n1 = now,
                        ![t].pc = IF HasKey(dict, th[t].key) /\ ~IsLive(Entry(dict, th[t].key).ts, now)
                                  THEN "lookup_del" ELSE "release",
                        ![t].ret = <<TTLDict_get_ret(dict, th[t].key, now)>>]
    /\ UNCHANGED <<dict, now, lock, seqDict>>

\* __contains__: ts, _ = self._dict[key]; if utcnow() - ts < ttl: return True
ContainsRead(t) ==
    /\ At(t, "in_read")
    /\ th' = [th EXCEPT ![t].n1 = now,
                        ![t].pc = IF HasKey(dict, th[t].key) /\ ~IsLive(Entry(dict, th[t].key).ts, now)
                                  THEN "lookup_del" ELSE "release",
                        ![t].ret = <<TTLDict_contains_ret(dict, th[t].key, now)>>]
    /\ UNCHANGED <<dict, now, lock, seqDict>>

\* get / __contains__: del self._dict[key]
LookupDel(t) ==
    /\ At(t, "lookup_del")
    /\ dict' = DelItem(dict, th[t].key)
    /\ Goto(t, "release")
    /\ UNCHANGED <<now, lock, seqDict>>

\* update: if key in self._dict
UpdateTest(t) ==
    /\ At(t, "upd_test")
    /\ th' = [th EXCEPT ![t].pc = IF HasKey(dict, th[t].key) THEN "upd_read" ELSE "release",
                        ![t].ret = <<FALSE>>]
    /\ UNCHANGED <<dict, now, lock, seqDict>>

\* update: ts, val = self._dict[key]; the ttl test; isinstance(val, dict)
UpdateRead(t) ==
    /\ At(t, "upd_read")
    /\ th' = [th EXCEPT ![t].n1 = now,
                        ![t].pc = IF TTLDict_update_ret(dict, th[t].key, now)
                                  THEN "upd_merge" ELSE "release",
                        ![t].todo = IF TTLDict_update_ret(dict, th[t].key, now)
                                    THEN {f \in Fields : th[t].upd[f] # Absent} ELSE {}]
    /\ UNCHANGED <<dict, now, lock, seqDict>>

\* update: val.update(updates) writes one field of the stored value
UpdateMerge(t, f) ==
    /\ At(t, "upd_merge")
    /\ f \in th[t].todo
    /\ dict' = IF HasKey(dict, th[t].key)
               THEN [dict EXCEPT ![IndexOf(dict, th[t].key)].val.f[f] = th[t].upd[f]]
               ELSE dict
    /\ th' = [th EXCEPT ![t].todo = @ \ {f},
                        ![t].pc = IF th[t].todo = {f} THEN "upd_store" ELSE "upd_merge"]
    /\ UNCHANGED <<now, lock, seqDict>>

\* update: self._dict[key] = (ts, val); return True
UpdateStore(t) ==
    /\ At(t, "upd_store")
    /\ th' = [th EXCEPT ![t].pc = "release", ![t].ret = <<TRUE>>]
    /\ UNCHANGED <<dict, now, lock, seqDict>>

\* delete: self._dict.pop(key, None)
DeletePop(t) ==
    /\ At(t, "del_pop")
    /\ dict' = DelItem(dict, th[t].key)
    /\ Goto(t, "release")
    /\ UNCHANGED <<now, lock, seqDict>>

\* values / __len__: self._evict_expired()
SweepEvict(t) ==
    /\ At(t, "val_evict") \/ At(t, "len_evict")
    /\ dict' = evict_expired(dict, now)
    /\ th' = [th EXCEPT ![t].n1 = now,
                        ![t].pc = IF At(t, "val_evict") THEN "val_list" ELSE "len_ret"]
    /\ UNCHANGED <<now, lock, seqDict>>

\* values: return [val for _, val in self._dict.values()]
ValuesList(t) ==
    /\ At(t, "val_list")
    /\ th' = [th EXCEPT ![t].pc = "release", ![t].ret = [i \in 1..Len(dict) |-> dict[i].val]]
    /\ UNCHANGED <<dict, now, lock, seqDict>>

\* __len__: return len(self._dict)
LenReturn(t) ==
    /\ At(t, "len_ret")
    /\ th' = [th EXCEPT ![t].pc = "release", ![t].ret = <<Len(dict)>>]
    /\ UNCHANGED <<dict, now, lock, seqDict>>

\* time passes
ConcTick ==
    /\ now < MaxTime
    /\ now' = now + 1
    /\ UNCHANGED <<dict, lock, th, seqDict>>

ConcSetVals == {DictVal([NoFields EXCEPT !["status"] = "initiated"])}

ConcUpdateArgs == {[NoFields EXCEPT !["status"] = "completed", !["duration"] = "7"]}

ConcFrame == UNCHANGED <<last, written, insOrder, n8nVars, restVars>>

NextConc ==
    \/ \E t \in Threads, k \in ConcKeys, v \in ConcSetVals : Call(t, "set", k, v, NoFields) /\ ConcFrame
    \/ \E t \in Threads, k \in ConcKeys, op \in {"get", "delete", "contains"} :
          Call(t, op, k, NoneVal, NoFields) /\ ConcFrame
    \/ \E t \in Threads, k \in ConcKeys, u \in ConcUpdateArgs : Call(t, "update", k, NoneVal, u) /\ ConcFrame
    \/ \E t \in Threads, op \in {"values", "len"} : Call(t, op, 0, NoneVal, NoFields) /\ ConcFrame
    \/ \E t \in Threads : Acquire(t) /\ ConcFrame
    \/ \E t \in Threads : Release(t) /\ ConcFrame
    \/ \E t \in Threads : SetEvict(t) /\ ConcFrame
    \/ \E t \in Threads : SetPop(t) /\ ConcFrame
    \/ \E t \in Threads : SetStore(t) /\ ConcFrame
    \/ \E t \in Threads : LookupTest(t) /\ ConcFrame
    \/ \E t \in Threads : GetRead(t) /\ ConcFrame
    \/ \E t \in Threads : ContainsRead(t) /\ ConcFrame
    \/ \E t \in Threads : LookupDel(t) /\ ConcFrame
    \/ \E t \in Threads : UpdateTest(t) /\ ConcFrame
    \/ \E t \in Threads : UpdateRead(t) /\ ConcFrame
    \/ \E t \in Threads, f \in Fields : UpdateMerge(t, f) /\ ConcFrame
    \/ \E t \in Threads : UpdateStore(t) /\ ConcFrame
    \/ \E t \in Threads : DeletePop(t) /\ ConcFrame
    \/ \E t \in Threads : SweepEvict(t) /\ ConcFrame
    \/ \E t \in Threads : ValuesList(t) /\ ConcFrame
    \/ \E t \in Threads : LenReturn(t) /\ ConcFrame
    \/ ConcTick /\ ConcFrame

(***************************************************************************)
(* call_n8n_action (app/n8n_client.py).                                    *)
(***************************************************************************)
MAX_RETRIES == 3
BASE_DELAY_MS == 500
MAX_DELAY_MS == 2000

\* the status codes the gateway answers with
Statuses == {200, 201, 202, 204, 299, 302, 400, 404, 429, 500, 503}

\* what one attempt can end in: an HTTP response (whose body parses as JSON
\* or does not), httpx.TimeoutException, or any other exception
Http(status, json) == [kind |-> "http", status |-> status, json |-> json]
Timeout == [kind |-> "timeout", status |-> 0, json |-> FALSE]
ConnectError == [kind |-> "error", status |-> 0, json |-> FALSE]

Outcomes ==
    {Http(s, TRUE) : s \in Statuses} \cup {Http(200, FALSE), Timeout, ConnectError}

\* response.status_code in [200, 201]
IsSuccessStatus(status) == status \in {200, 201}

\* response.status_code == 429
IsRateLimited(status) == status = 429

\* (variant: every status from 400 up is retried)
IsServerError_from400(status) == status >= 400

\* response.status_code >= 500
IsServerError(status) == status >= 500

Min(a, b) == IF a < b THEN a ELSE b

\* min(BASE_DELAY_MS * (2 ** attempt), MAX_DELAY_MS)
BackoffDelay(a) == Min(BASE_DELAY_MS * (2 ^ a), MAX_DELAY_MS)

\* (variant: the envelope reports the loop index)
AttemptsReported_index(a) == a

\* "attempts": attempt + 1
AttemptsReported(a) == a + 1

\* (variant: the loop runs once more)
HasNextAttempt_extra(a) == a + 1 <= MAX_RETRIES

\* for attempt in range(MAX_RETRIES): is there an iteration after a
HasNextAttempt(a) == a + 1 < MAX_RETRIES

NoResult ==
    [success |-> FALSE, error |-> <<"", 0>>, attempts |-> 0, last_error |-> "None", data |-> "None"]

SuccessEnvelope(a) ==
    [success |-> TRUE, error |-> <<"", 0>>, attempts |-> AttemptsReported(a),
     last_error |-> "None", data |-> "payload"]

ClientErrorEnvelope(a, status) ==
    [success |-> FALSE, error |-> <<"Client error", status>>, attempts |-> AttemptsReported(a),
     last_error |-> "None", data |-> "None"]

ExhaustedEnvelope(err) ==
    [success |-> FALSE, error |-> <<"Max retries exceeded", 0>>, attempts |-> MAX_RETRIES,
     last_error |-> err, data |-> "None"]

N8nIdle ==
    /\ n8nPc = "request"
    /\ attempt = 0
    /\ issued = <<>>
    /\ last_error = "None"
    /\ delay = 0
    /\ result = NoResult

\* the POST is answered 200 or 201 with a JSON body
RespondSuccess(o) ==
    /\ n8nPc = "request"
    /\ o.kind = "http" /\ IsSuccessStatus(o.status) /\ o.json
    /\ issued' = Append(issued, o)
    /\ result' = SuccessEnvelope(attempt)
    /\ n8nPc' = "done"
    /\ UNCHANGED <<attempt, last_error, delay>>

\* the POST is answered 429
RespondRateLimited(o) ==
    /\ n8nPc = "request"
    /\ o.kind = "http" /\ ~IsSuccessStatus(o.status) /\ IsRateLimited(o.status)
    /\ issued' = Append(issued, o)
    /\ delay' = BackoffDelay(attempt)
    /\ n8nPc' = "sleep"
    /\ UNCHANGED <<attempt, last_error, result>>

\* the POST is answered 5xx
RespondServerError(o) ==
    /\ n8nPc = "request"
    /\ o.kind = "http" /\ ~IsSuccessStatus(o.status) /\ ~IsRateLimited(o.status)
    /\ IsServerError(o.status)
    /\ issued' = Append(issued, o)
    /\ delay' = BackoffDelay(attempt)
    /\ n8nPc' = "sleep"
    /\ UNCHANGED <<attempt, last_error, result>>

\* the POST is answered with any other status: the else branch
RespondOther(o) ==
    /\ n8nPc = "request"
    /\ o.kind = "http" /\ ~IsSuccessStatus(o.status) /\ ~IsRateLimited(o.status)
    /\ ~IsServerError(o.status)
    /\ issued' = Append(issued, o)
    /\ result' = ClientErrorEnvelope(attempt, o.status)
    /\ n8nPc' = "done"
    /\ UNCHANGED <<attempt, last_error, delay>>

\* except httpx.TimeoutException
RaiseTimeout(o) ==
    /\ n8nPc = "request"
    /\ o.kind = "timeout"
    /\ issued' = Append(issued, o)
    /\ last_error' = "timeout"
    /\ delay' = BackoffDelay(attempt)
    /\ n8nPc' = "sleep"
    /\ UNCHANGED <<attempt, result>>

\* except Exception: a connection error, or response.json() failing on a
\* 200/201 whose body is not JSON
RaiseException(o) ==
    /\ n8nPc = "request"
    /\ \/ o.kind = "error"
       \/ o.kind = "http" /\ IsSuccessStatus(o.status) /\ ~o.json
    /\ issued' = Append(issued, o)
    /\ last_error' = IF o.kind = "error" THEN "connect" ELSE "json"
    /\ delay' = BackoffDelay(attempt)
    /\ n8nPc' = "sleep"
    /\ UNCHANGED <<attempt, result>>

\* asyncio.sleep(delay) returns and the loop goes on
SleepThenRetry ==
    /\ n8nPc = "sleep"
    /\ HasNextAttempt(attempt)
    /\ attempt' = attempt + 1
    /\ n8nPc' = "request"
    /\ UNCHANGED <<issued, last_error, delay, result>>

\* asyncio.sleep(delay) returns, the loop is over: all retries exhausted
SleepThenGiveUp ==
    /\ n8nPc = "sleep"
    /\ ~HasNextAttempt(attempt)
    /\ result' = ExhaustedEnvelope(last_error)
    /\ n8nPc' = "done"
    /\ UNCHANGED <<attempt, issued, last_error, delay>>

NextN8n ==
    \/ \E o \in Outcomes : RespondSuccess(o) /\ UNCHANGED <<regVars, concVars, restVars>>
    \/ \E o \in Outcomes : RespondRateLimited(o) /\ UNCHANGED <<regVars, concVars, restVars>>
    \/ \E o \in Outcomes : RespondServerError(o) /\ UNCHANGED <<regVars, concVars, restVars>>
    \/ \E o \in Outcomes : RespondOther(o) /\ UNCHANGED <<regVars, concVars, restVars>>
    \/ \E o \in Outcomes : RaiseTimeout(o) /\ UNCHANGED <<regVars, concVars, restVars>>
    \/ \E o \in Outcomes : RaiseException(o) /\ UNCHANGED <<regVars, concVars, restVars>>
    \/ SleepThenRetry /\ UNCHANGED <<regVars, concVars, restVars>>
    \/ SleepThenGiveUp /\ UNCHANGED <<regVars, concVars, restVars>>

(***************************************************************************)
(* ConversationContext (app/conversation_context.py).  A text is a         *)
(* sequence of characters.  A turn of the history is [role, content]; its  *)
(* timestamp, which nothing reads, is left out.  Time is in whole seconds. *)
(***************************************************************************)
Roles == {"user", "assistant"}
NoTime == -1
None == "<None>"

UpperCase ==
    <<"A", "B", "C", "D", "E", "F", "G", "H", "I", "J", "K", "L", "M",
      "N", "O", "P", "Q", "R", "S", "T", "U", "V", "W", "X", "Y", "Z">>

LowerCase ==
    <<"a", "b", "c", "d", "e", "f", "g", "h", "i", "j", "k", "l", "m",
      "n", "o", "p", "q", "r", "s", "t", "u", "v", "w", "x", "y", "z">>

\* str.lower(), one character
LowerChar(c) ==
    IF \E i \in 1..Len(UpperCase) : UpperCase[i] = c
    THEN LowerCase[CHOOSE i \in 1..Len(UpperCase) : UpperCase[i] = c]
    ELSE c

\* str.lower()
lower(text) == [i \in 1..Len(text) |-> LowerChar(text[i])]

\* `pattern in text`
IsIn(pattern, text) ==
    \E i \in 0..(Len(text) - Len(pattern)) :
        \A j \in 1..Len(pattern) : text[i + j] = pattern[j]

\* any(keyword in text_lower for keyword in keywords)
AnyIn(keywords, text_lower) == \E keyword \in keywords : IsIn(keyword, text_lower)

frustration_keywords ==
    { <<"f", "r", "u", "s", "t", "r", "a", "t", "e", "d">>,
      <<"a", "n", "n", "o", "y", "e", "d">>,
      <<"a", "n", "g", "r", "y">>,
      <<"u", "p", "s", "e", "t">>,
      <<"r", "i", "d", "i", "c", "u", "l", "o", "u", "s">>,
      <<"f", "o", "r", "g", "e", "t", " ", "i", "t">>,
      <<"n", "e", "v", "e", "r", " ", "m", "i", "n", "d">>,
      <<"t", "h", "i", "s", " ", "i", "s", " ", "s", "t", "u", "p", "i", "d">>,
      <<"w", "a", "s", "t", "e", " ", "o", "f", " ", "t", "i", "m", "e">>,
      <<"n", "o", "t", " ", "w", "o", "r", "k", "i", "n", "g">>,
      <<"d", "o", "e", "s", "n", "'", "t", " ", "w", "o", "r", "k">>,
      <<"b", "r", "o", "k", "e", "n">> }
confusion_keywords ==
    { <<"c", "o", "n", "f", "u", "s", "e", "d">>,
      <<"d", "o", "n", "'", "t", " ", "u", "n", "d", "e", "r", "s", "t", "a", "n", "d">>,
      <<"w", "h", "a", "t">>,
      <<"h", "u", "h">>,
      <<"u", "n", "c", "l", "e", "a", "r">>,
      <<"n", "o", "t", " ", "s", "u", "r", "e">>,
      <<"d", "o", "n", "'", "t", " ", "g", "e", "t", " ", "i", "t">>,
      <<"e", "x", "p", "l", "a", "i", "n">>,
      <<"c", "l", "a", "r", "i", "f", "y">>,
      <<"r", "e", "p", "e", "a", "t">> }
satisfaction_keywords ==
    { <<"g", "r", "e", "a", "t">>,
      <<"p", "e", "r", "f", "e", "c", "t">>,
      <<"e", "x", "c", "e", "l", "l", "e", "n", "t">>,
      <<"w", "o", "n", "d", "e", "r", "f", "u", "l">>,
      <<"a", "w", "e", "s", "o", "m", "e">>,
      <<"t", "h", "a", "n", "k", " ", "y", "o", "u">>,
      <<"t", "h", "a", "n", "k", "s">>,
      <<"a", "p", "p", "r", "e", "c", "i", "a", "t", "e">>,
      <<"h", "e", "l", "p", "f", "u", "l">>,
      <<"g", "o", "o", "d">> }
clarification_patterns ==
    { <<"w", "h", "a", "t">>,
      <<"h", "u", "h">>,
      <<"r", "e", "p", "e", "a", "t">>,
      <<"a", "g", "a", "i", "n">>,
      <<"d", "i", "d", "n", "'", "t", " ", "c", "a", "t", "c", "h">>,
      <<"d", "i", "d", "n", "'", "t", " ", "h", "e", "a", "r">>,
      <<"p", "a", "r", "d", "o", "n">>,
      <<"s", "o", "r", "r", "y">>,
      <<"u", "n", "c", "l", "e", "a", "r">> }
\* the user texts the model feeds to add_turn
Texts ==
    { <<"o", "k">>,
      <<"b", "r", "o", "k", "e", "n">>,
      <<"h", "u", "h">>,
      <<"T", "h", "a", "n", "k", "s">>,
      <<"w", "h", "a", "t", " ", "i", "s", " ", "b", "r", "o", "k", "e", "n">>,
      <<"g", "o", "o", "d", " ", "u", "p", "s", "e", "t">>,
      <<"h", "u", "h", " ", "t", "h", "a", "n", "k", "s">>,
      <<"A", "n", "g", "r", "y", " ", "h", "u", "h", " ", "g", "o", "o", "d">>,
      <<"a", "g", "a", "i", "n">>,
      <<"w", "h", "a", "t", "e", "v", "e", "r">> }
\* the texts of the silence runs
SilenceTexts == { <<"o", "k">> }

detect_sentiment_confusion_first(text) ==
    LET text_lower == lower(text)
    IN  IF AnyIn(confusion_keywords, text_lower) THEN "confused"
        ELSE IF AnyIn(frustration_keywords, text_lower) THEN "frustrated"
        ELSE IF AnyIn(satisfaction_keywords, text_lower) THEN "satisfied"
        ELSE "neutral"

detect_sentiment(text) ==
    LET text_lower == lower(text)
    IN  IF AnyIn(frustration_keywords, text_lower) THEN "frustrated"
        ELSE IF AnyIn(confusion_keywords, text_lower) THEN "confused"
        ELSE IF AnyIn(satisfaction_keywords, text_lower) THEN "satisfied"
        ELSE "neutral"

is_clarification_request(text) == AnyIn(clarification_patterns, lower(text))

\* the fragments of the adaptive prompt, each cut to its first sentence
SuffixFragment(condition) ==
    CASE condition = "frustrated" -> "\n\nUSER IS FRUSTRATED."
      [] condition = "confused" -> "\n\nUSER IS CONFUSED."
      [] condition = "satisfied" -> "\n\nUSER IS SATISFIED."
      [] condition = "clarification" -> "\n\nUSER HAS ASKED FOR CLARIFICATION 3+ TIMES."
      [] condition = "retry" -> "\n\nUSER HAS RETRIED 3+ TIMES."

\* ''.join(suffixes)
RECURSIVE Join(_)
Join(suffixes) ==
    IF suffixes = <<>> THEN "" ELSE Head(suffixes) \o Join(Tail(suffixes))

get_adaptive_prompt_suffix_above(sentiment, clarifications, retries) ==
    Join( (IF sentiment = "frustrated" THEN <<SuffixFragment("frustrated")>>
           ELSE IF sentiment = "confused" THEN <<SuffixFragment("confused")>>
           ELSE IF sentiment = "satisfied" THEN <<SuffixFragment("satisfied")>>
           ELSE <<>>)
          \o (IF clarifications > 3 THEN <<SuffixFragment("clarification")>> ELSE <<>>)
          \o (IF retries > 3 THEN <<SuffixFragment("retry")>> ELSE <<>>) )

get_adaptive_prompt_suffix(sentiment, clarifications, retries) ==
    Join( (IF sentiment = "frustrated" THEN <<SuffixFragment("frustrated")>>
           ELSE IF sentiment = "confused" THEN <<SuffixFragment("confused")>>
           ELSE IF sentiment = "satisfied" THEN <<SuffixFragment("satisfied")>>
           ELSE <<>>)
          \o (IF clarifications >= 3 THEN <<SuffixFragment("clarification")>> ELSE <<>>)
          \o (IF retries >= 3 THEN <<SuffixFragment("retry")>> ELSE <<>>) )

\* seconds since the user last spoke; NoTime stands for None
get_silence_duration ==
    IF last_user_speech_time = NoTime THEN NoTime
    ELSE ctxNow - last_user_speech_time

\* what get_silence_response returns on setting a level, None on setting none
SilenceMessage(level) ==
    CASE level = 3 ->
             "I haven't heard from you in a while. Let me connect you with our team. One moment please."
      [] level = 2 -> "Take your time. I'll wait for you to respond."
      [] level = 1 -> "Are you still there? I'm here to help."
      [] OTHER -> None

\* the branch get_silence_response takes: the level it sets, 0 for none
SilenceBranch_lowest_first(silence_duration, count) ==
    IF silence_duration = NoTime THEN 0
    ELSE IF silence_duration >= 6 /\ count < 1 THEN 1
    ELSE IF silence_duration >= 12 /\ count < 2 THEN 2
    ELSE IF silence_duration >= 18 /\ count < 3 THEN 3
    ELSE 0

SilenceBranch(silence_duration, count) ==
    IF silence_duration = NoTime THEN 0
    ELSE IF silence_duration >= 18 /\ count < 3 THEN 3
    ELSE IF silence_duration >= 12 /\ count < 2 THEN 2
    ELSE IF silence_duration >= 6 /\ count < 1 THEN 1
    ELSE 0

\* deque(maxlen=max_history).append
deque_append(history_, turn) ==
    IF Len(history_) < MaxHistory THEN Append(history_, turn)
    ELSE Append(Tail(history_), turn)

\* add_turn: `if role == "user"`
IsUserTurn_any(role) == TRUE

IsUserTurn(role) == role = "user"

CtxResult(op, role, content, ret, duration) ==
    [op |-> op, role |-> role, content |-> content, ret |-> ret,
     duration |-> duration, before |-> silence_count]

CtxIdle ==
    /\ ctxNow = 0
    /\ history = <<>>
    /\ user_sentiment = "neutral"
    /\ clarification_count = 0
    /\ retry_count = 0
    /\ last_user_speech_time = NoTime
    /\ silence_count = 0
    /\ ctxLast = CtxResult("init", "", <<>>, None, NoTime)
    /\ fired = <<>>

CtxTick ==
    /\ ctxNow < MaxClock
    /\ ctxNow' = ctxNow + 1
    /\ ctxLast' = CtxResult("tick", "", <<>>, None, NoTime)
    /\ UNCHANGED <<history, user_sentiment, clarification_count, retry_count,
                   last_user_speech_time, silence_count, fired>>

AddTurn(role, content) ==
    /\ IsUserTurn(role) /\ is_clarification_request(content)
           => clarification_count < MaxCount
    /\ history' = deque_append(history, [role |-> role, content |-> content])
    /\ IF IsUserTurn(role)
       THEN /\ last_user_speech_time' = ctxNow
            /\ silence_count' = 0
            /\ user_sentiment' = detect_sentiment(content)
            /\ clarification_count' =
                   IF is_clarification_request(content)
                   THEN clarification_count + 1
                   ELSE clarification_count
            /\ fired' = <<>>
       ELSE UNCHANGED <<last_user_speech_time, silence_count, user_sentiment,
                        clarification_count, fired>>
    /\ ctxLast' = CtxResult("add_turn", role, content, None, NoTime)
    /\ UNCHANGED <<ctxNow, retry_count>>

GetAdaptivePromptSuffix ==
    /\ ctxLast' = CtxResult("get_adaptive_prompt_suffix", "", <<>>,
                            get_adaptive_prompt_suffix(user_sentiment,
                                clarification_count, retry_count),
                            NoTime)
    /\ UNCHANGED <<ctxNow, history, user_sentiment, clarification_count,
                   retry_count, last_user_speech_time, silence_count, fired>>

GetSilenceResponse ==
    LET silence_duration == get_silence_duration
        level == SilenceBranch(silence_duration, silence_count)
    IN  /\ silence_count' = IF level = 0 THEN silence_count ELSE level
        /\ fired' = IF level = 0 THEN fired ELSE Append(fired, level)
        /\ ctxLast' = CtxResult("get_silence_response", "", <<>>,
                                SilenceMessage(level), silence_duration)
        /\ UNCHANGED <<ctxNow, history, user_sentiment, clarification_count,
                       retry_count, last_user_speech_time>>

IncrementRetry ==
    /\ retry_count < MaxCount
    /\ retry_count' = retry_count + 1
    /\ ctxLast' = CtxResult("increment_retry", "", <<>>, None, NoTime)
    /\ UNCHANGED <<ctxNow, history, user_sentiment, clarification_count,
                   last_user_speech_time, silence_count, fired>>

ResetRetry ==
    /\ retry_count' = 0
    /\ ctxLast' = CtxResult("reset_retry", "", <<>>, None, NoTime)
    /\ UNCHANGED <<ctxNow, history, user_sentiment, clarification_count,
                   last_user_speech_time, silence_count, fired>>

\* the context over time: turns, silence polls, retries and the clock
NextSilence ==
    \/ CtxTick /\ UNCHANGED nonCtxVars
    \/ \E role \in Roles, content \in SilenceTexts :
           AddTurn(role, content) /\ UNCHANGED nonCtxVars
    \/ GetSilenceResponse /\ UNCHANGED nonCtxVars
    \/ IncrementRetry /\ UNCHANGED nonCtxVars
    \/ ResetRetry /\ UNCHANGED nonCtxVars

\* the context over texts: turns, retries and the adaptive prompt
NextCtx ==
    \/ \E role \in Roles, content \in Texts :
           AddTurn(role, content) /\ UNCHANGED nonCtxVars
    \/ GetAdaptivePromptSuffix /\ UNCHANGED nonCtxVars
    \/ IncrementRetry /\ UNCHANGED nonCtxVars
    \/ ResetRetry /\ UNCHANGED nonCtxVars

(***************************************************************************)
(* The TTS sanitizer (app/tts_sanitizer.py).  A regular expression is a    *)
(* sequence of tokens: a word edge (\b), or a literal character or a       *)
(* character class with a quantifier ("1", "?", "*" or "+").  The          *)
(* expressions of the module have greedy quantifiers only, and for each of *)
(* them the match re finds at a position is the longest one there.         *)
(***************************************************************************)
Digits == {"0", "1", "2", "3", "4", "5", "6", "7", "8", "9"}
Letters == {UpperCase[i] : i \in DOMAIN UpperCase} \cup {LowerCase[i] : i \in DOMAIN LowerCase}
Whitespace == {" ", "\t", "\n"}

Tok(k, c, q) == [k |-> k, c |-> c, q |-> q]
WordEdge == Tok("b", "", "1")
Lits(s) == [i \in DOMAIN s |-> Tok("lit", s[i], "1")]
Run(class, n) == [i \in 1..n |-> Tok("cls", class, "1")]

InClass(class, ch) ==
    CASE class = "w" -> ch \in Letters \cup Digits \cup {"_"}
      [] class = "s" -> ch \in Whitespace
      [] class = "d" -> ch \in Digits
      [] class = "^}" -> ch # "}"
      [] class = "^]" -> ch # "]"
      [] class = "^>" -> ch # ">"
      [] class = "sep" -> ch \in {"-", "."} \cup Whitespace
      [] class = "local" -> ch \in Letters \cup Digits \cup {".", "_", "%", "+", "-"}
      [] class = "domain" -> ch \in Letters \cup Digits \cup {".", "-"}
      [] class = "alpha" -> ch \in Letters

\* re.IGNORECASE compares literals without case; the expressions compiled
\* without it have no letter among their literals
TokMatches(tok, ch) ==
    IF tok.k = "lit" THEN LowerChar(ch) = LowerChar(tok.c) ELSE InClass(tok.c, ch)

\* \b between text[p] and text[p + 1]
AtWordEdge(text, p) ==
    (p > 0 /\ InClass("w", text[p])) # (p < Len(text) /\ InClass("w", text[p + 1]))

\* where a match of toks[i..] that starts after text[p] can end
RECURSIVE Ends(_, _, _, _)
Ends(toks, i, text, p) ==
    IF i > Len(toks) THEN {p}
    ELSE LET tok == toks[i]
             ok == p < Len(text) /\ TokMatches(tok, text[p + 1])
         IN  CASE tok.k = "b" ->
                      IF AtWordEdge(text, p) THEN Ends(toks, i + 1, text, p) ELSE {}
               [] tok.k # "b" /\ tok.q = "1" ->
                      IF ok THEN Ends(toks, i + 1, text, p + 1) ELSE {}
               [] tok.k # "b" /\ tok.q = "?" ->
                      Ends(toks, i + 1, text, p)
                          \cup (IF ok THEN Ends(toks, i + 1, text, p + 1) ELSE {})
               [] tok.k # "b" /\ tok.q = "*" ->
                      Ends(toks, i + 1, text, p)
                          \cup (IF ok THEN Ends(toks, i, text, p + 1) ELSE {})
               [] tok.k # "b" /\ tok.q = "+" ->
                      IF ok THEN Ends(toks, i + 1, text, p + 1)
                                     \cup Ends(toks, i, text, p + 1)
                      ELSE {}

\* ', '.join(list(digits)) over the digits a phone expression captured
RECURSIVE SpokenDigits(_)
SpokenDigits(match) ==
    IF match = <<>> THEN <<>>
    ELSE IF Head(match) \notin Digits THEN SpokenDigits(Tail(match))
    ELSE IF \E i \in DOMAIN Tail(match) : Tail(match)[i] \in Digits
         THEN <<Head(match), ",", " ">> \o SpokenDigits(Tail(match))
         ELSE <<Head(match)>>

\* str.replace(old, new)
RECURSIVE Replace(_, _, _)
Replace(text, old, new) ==
    IF Len(text) < Len(old) THEN text
    ELSE IF SubSeq(text, 1, Len(old)) = old
         THEN new \o Replace(SubSeq(text, Len(old) + 1, Len(text)), old, new)
         ELSE <<Head(text)>> \o Replace(Tail(text), old, new)

\* re.sub(r'([a-z])([A-Z])', r'\1 \2', domain)
RECURSIVE SplitCamelCase(_)
SplitCamelCase(domain) ==
    IF Len(domain) < 2 THEN domain
    ELSE IF /\ \E i \in DOMAIN LowerCase : LowerCase[i] = domain[1]
            /\ \E i \in DOMAIN UpperCase : UpperCase[i] = domain[2]
         THEN <<domain[1], " ", domain[2]>>
                  \o SplitCamelCase(SubSeq(domain, 3, Len(domain)))
         ELSE <<Head(domain)>> \o SplitCamelCase(Tail(domain))

\* replace_email: the groups are the text before "@", the text after the
\* last ".", and the text between
replace_email(match) ==
    LET at == CHOOSE i \in DOMAIN match : match[i] = "@"
        dot == CHOOSE i \in DOMAIN match :
                   match[i] = "." /\ \A j \in (i + 1)..Len(match) : match[j] # "."
        local == SubSeq(match, 1, at - 1)
        domain == SubSeq(match, at + 1, dot - 1)
        tld == SubSeq(match, dot + 1, Len(match))
        local_spoken == Replace(local, <<".">>, <<" ", "d", "o", "t", " ">>)
        domain_spoken ==
            Replace(Replace(Replace(SplitCamelCase(domain),
                                    <<"a", "i">>, <<"A", " ", "I">>),
                            <<"A", "I">>, <<"A", " ", "I">>),
                    <<".">>, <<" ", "d", "o", "t", " ">>)
    IN  local_spoken \o <<" ", "a", "t", " ">> \o domain_spoken
            \o <<" ", "d", "o", "t", " ">> \o tld

\* what re.sub puts in place of a match
Replacement(how, match) ==
    CASE how = "remove" -> <<>>
      [] how = "space" -> <<" ">>
      [] how = "intl" -> <<"c", "o", "u", "n", "t", "r", "y", " ", "c", "o", "d", "e", " ">> \o SpokenDigits(match)
      [] how = "digits" -> SpokenDigits(match)
      [] how = "email" -> replace_email(match)

\* where a match of toks that starts after text[q] and is not empty can end
MatchEnds(toks, text, q) == Ends(toks, 1, text, q) \ {q}

\* the positions from p on where toks matches
MatchStarts(toks, text, p) == {q \in p..(Len(text) - 1) : MatchEnds(toks, text, q) # {}}

Least(S) == CHOOSE x \in S : \A y \in S : x <= y

Greatest(S) == CHOOSE x \in S : \A y \in S : y <= x

\* re.sub from position p on: leftmost matches, none overlapping; the text
\* between two matches is copied
RECURSIVE SubFrom(_, _, _, _)
SubMatch(toks, how, text, p, q, e) ==
    SubSeq(text, p + 1, q)
        \o Replacement(how, SubSeq(text, q + 1, e))
        \o SubFrom(toks, how, text, e)

SubAt(toks, how, text, p, q) ==
    SubMatch(toks, how, text, p, q, Greatest(MatchEnds(toks, text, q)))

SubFrom(toks, how, text, p) ==
    IF MatchStarts(toks, text, p) = {}
    THEN SubSeq(text, p + 1, Len(text))
    ELSE SubAt(toks, how, text, p, Least(MatchStarts(toks, text, p)))

re_sub(toks, how, text) == SubFrom(toks, how, text, 0)

\* str.strip()
RECURSIVE strip(_)
strip(text) ==
    IF text = <<>> THEN text
    ELSE IF Head(text) \in Whitespace THEN strip(Tail(text))
    ELSE IF text[Len(text)] \in Whitespace THEN strip(SubSeq(text, 1, Len(text) - 1))
    ELSE text

\* re.sub(r'\s+', ' ', text)
CollapseWhitespace(text) == re_sub(<<Tok("cls", "s", "+")>>, "space", text)

FORBIDDEN_PATTERNS ==
    << <<WordEdge>>
           \o Lits(<<"i", "n", "i", "t", "i", "a", "t", "e", "_">>)
           \o <<Tok("cls", "w", "+"), WordEdge>>,
       <<WordEdge>>
           \o Lits(<<"c", "o", "l", "l", "e", "c", "t", "_">>)
           \o <<Tok("cls", "w", "+"), WordEdge>>,
       <<WordEdge>>
           \o Lits(<<"c", "o", "n", "f", "i", "r", "m", "_", "a", "n", "d", "_">>)
           \o <<Tok("cls", "w", "+"), WordEdge>>,
       <<WordEdge>>
           \o Lits(<<"s", "e", "a", "r", "c", "h", "_", "w", "e", "b">>)
           \o <<WordEdge>>,
       <<WordEdge>>
           \o Lits(<<"g", "e", "t", "_", "c", "u", "r", "r", "e", "n", "t", "_", "d", "a", "t", "e", "t", "i", "m", "e">>)
           \o <<WordEdge>>,
       <<WordEdge>>
           \o Lits(<<"g", "e", "t", "_", "l", "o", "c", "a", "t", "i", "o", "n", "_", "i", "n", "f", "o">>)
           \o <<WordEdge>>,
       <<WordEdge>>
           \o Lits(<<"s", "e", "n", "d", "_", "e", "m", "a", "i", "l">>)
           \o <<WordEdge>>,
       <<WordEdge>>
           \o Lits(<<"s", "e", "n", "d", "_", "s", "m", "s">>)
           \o <<WordEdge>>,
       <<WordEdge>>
           \o Lits(<<"s", "e", "n", "d", "_", "w", "h", "a", "t", "s", "a", "p", "p">>)
           \o <<WordEdge>>,
       <<WordEdge>>
           \o Lits(<<"b", "o", "o", "k", "_", "a", "p", "p", "o", "i", "n", "t", "m", "e", "n", "t">>)
           \o <<WordEdge>>,
       <<WordEdge>>
           \o Lits(<<"r", "e", "s", "c", "h", "e", "d", "u", "l", "e", "_", "a", "p", "p", "o", "i", "n", "t", "m", "e", "n", "t">>)
           \o <<WordEdge>>,
       <<WordEdge>>
           \o Lits(<<"c", "a", "n", "c", "e", "l", "_", "a", "p", "p", "o", "i", "n", "t", "m", "e", "n", "t">>)
           \o <<WordEdge>>,
       Lits(<<"{">>) \o <<Tok("cls", "^}", "*")>> \o Lits(<<"}">>),
       Lits(<<"[">>) \o <<Tok("cls", "^]", "*")>> \o Lits(<<"]">>),
       Lits(<<"<">>) \o <<Tok("cls", "^>", "*")>> \o Lits(<<">">>),
       <<WordEdge>>
           \o Lits(<<"f", "u", "n", "c", "t", "i", "o", "n", "(">>),
       <<WordEdge>>
           \o Lits(<<"a", "w", "a", "i", "t">>)
           \o <<Tok("cls", "s", "+")>>,
       <<WordEdge>>
           \o Lits(<<"a", "s", "y", "n", "c">>)
           \o <<Tok("cls", "s", "+")>>,
       <<WordEdge>>
           \o Lits(<<"r", "e", "t", "u", "r", "n">>)
           \o <<Tok("cls", "s", "+")>>,
       <<WordEdge>>
           \o Lits(<<"c", "o", "n", "s", "t">>)
           \o <<Tok("cls", "s", "+")>>,
       <<WordEdge>> \o Lits(<<"l", "e", "t">>) \o <<Tok("cls", "s", "+")>>,
       <<WordEdge>> \o Lits(<<"v", "a", "r">>) \o <<Tok("cls", "s", "+")>>,
       <<WordEdge>> \o Lits(<<"N", "8", "N">>) \o <<WordEdge>>,
       <<WordEdge>> \o Lits(<<"n", "8", "n">>) \o <<WordEdge>>,
       <<WordEdge>>
           \o Lits(<<"w", "e", "b", "h", "o", "o", "k">>)
           \o <<WordEdge>>,
       <<WordEdge>> \o Lits(<<"A", "P", "I">>) \o <<WordEdge>>,
       <<WordEdge>> \o Lits(<<"J", "S", "O", "N">>) \o <<WordEdge>>,
       <<WordEdge>> \o Lits(<<"H", "T", "T", "P">>) \o <<WordEdge>>,
       <<WordEdge>> \o Lits(<<"R", "E", "S", "T">>) \o <<WordEdge>>,
       <<WordEdge>>
           \o Lits(<<"e", "r", "r", "o", "r">>)
           \o <<Tok("cls", "s", "+")>>
           \o Lits(<<"c", "o", "d", "e">>)
           \o <<Tok("cls", "s", "+"), Tok("cls", "d", "+")>>,
       <<WordEdge>>
           \o Lits(<<"s", "e", "s", "s", "i", "o", "n">>)
           \o <<Tok("cls", "s", "+")>>
           \o Lits(<<"s", "t", "a", "t", "e">>)
           \o <<WordEdge>>,
       <<WordEdge>>
           \o Lits(<<"d", "a", "t", "a", "b", "a", "s", "e">>)
           \o <<WordEdge>>,
       <<WordEdge>>
           \o Lits(<<"s", "u", "p", "a", "b", "a", "s", "e">>)
           \o <<WordEdge>>,
       <<WordEdge>> \o Lits(<<"C", "R", "M">>) \o <<WordEdge>>,
       <<WordEdge>>
           \o Lits(<<"e", "n", "d", "p", "o", "i", "n", "t">>)
           \o <<WordEdge>>,
       <<WordEdge>>
           \o Lits(<<"p", "a", "y", "l", "o", "a", "d">>)
           \o <<WordEdge>>,
       <<WordEdge>>
           \o Lits(<<"r", "e", "q", "u", "e", "s", "t">>)
           \o <<WordEdge>>,
       <<WordEdge>>
           \o Lits(<<"r", "e", "s", "p", "o", "n", "s", "e">>)
           \o <<WordEdge>> >>
\* the patterns lo..hi applied in their order (`if matches:` logs only); the
\* range is halved so that the evaluation stays shallow on long texts
RECURSIVE RemoveForbiddenIn(_, _, _)
RemoveForbiddenIn(text, lo, hi) ==
    IF lo > hi THEN text
    ELSE IF lo = hi THEN re_sub(FORBIDDEN_PATTERNS[lo], "remove", text)
    ELSE LET mid == (lo + hi) \div 2
             first == RemoveForbiddenIn(text, lo, mid)
         IN  IF first = text
             THEN RemoveForbiddenIn(text, mid + 1, hi)
             ELSE RemoveForbiddenIn(first, mid + 1, hi)

RemoveForbidden(text, n) == RemoveForbiddenIn(text, n, Len(FORBIDDEN_PATTERNS))

format_phone_numbers_for_speech(text) ==
    LET pattern_intl == Lits(<<"+">>)
           \o <<Tok("cls", "d", "1"), Tok("cls", "d", "?"), Tok("cls", "d", "?"), Tok("cls", "sep", "?")>>
           \o Run("d", 3)
           \o <<Tok("cls", "sep", "?")>>
           \o Run("d", 3)
           \o <<Tok("cls", "sep", "?")>>
           \o Run("d", 4)
        pattern_us == Lits(<<"(">>)
           \o Run("d", 3)
           \o Lits(<<")">>)
           \o <<Tok("cls", "s", "?")>>
           \o Run("d", 3)
           \o <<Tok("cls", "sep", "?")>>
           \o Run("d", 4)
        pattern_plain == <<WordEdge>> \o Run("d", 10) \o <<WordEdge>>
        pattern_local == <<WordEdge>>
           \o Run("d", 3)
           \o <<Tok("cls", "sep", "?")>>
           \o Run("d", 4)
           \o <<WordEdge>>
    IN  re_sub(pattern_local, "digits",
            re_sub(pattern_plain, "digits",
                re_sub(pattern_us, "digits",
                    re_sub(pattern_intl, "intl", text))))

format_emails_for_speech(text) ==
    LET pattern == <<WordEdge, Tok("cls", "local", "+")>>
           \o Lits(<<"@">>)
           \o <<Tok("cls", "domain", "+")>>
           \o Lits(<<".">>)
           \o Run("alpha", 2)
           \o <<Tok("cls", "alpha", "*"), WordEdge>>
    IN  re_sub(pattern, "email", text)

\* the replacements of remove_tts_unfriendly_chars (the backquote, which no
\* text of the model holds, is left out); no replacement holds a character
\* that a later one replaces, so the order does not matter
SpokenChar(ch) ==
    CASE ch = "#" -> <<" ", "n", "u", "m", "b", "e", "r", " ">>
      [] ch = "@" -> <<" ", "a", "t", " ">>
      [] ch = "$" -> <<" ", "d", "o", "l", "l", "a", "r", "s", " ">>
      [] ch = "%" -> <<" ", "p", "e", "r", "c", "e", "n", "t", " ">>
      [] ch = "&" -> <<" ", "a", "n", "d", " ">>
      [] ch \in {"*", "_", "|", "~", "^"} -> <<" ">>
      [] ch = "=" -> <<" ", "e", "q", "u", "a", "l", "s", " ">>
      [] ch = "+" -> <<" ", "p", "l", "u", "s", " ">>
      [] OTHER -> <<ch>>

RECURSIVE ReplaceChars(_)
ReplaceChars(text) ==
    IF text = <<>> THEN <<>> ELSE SpokenChar(Head(text)) \o ReplaceChars(Tail(text))

remove_tts_unfriendly_chars(text) == strip(CollapseWhitespace(ReplaceChars(text)))

\* step 6: `if '{' in text or '[' in text or '<' in text`
NeedsStripping_braces_only(text) == \E i \in DOMAIN text : text[i] = "{"

NeedsStripping(text) == \E i \in DOMAIN text : text[i] \in {"{", "[", "<"}

sanitize_for_tts(text) ==
    IF text = <<>> THEN <<>>
    ELSE LET step1 == RemoveForbidden(text, 1)
             step2 == format_phone_numbers_for_speech(step1)
             step3 == format_emails_for_speech(step2)
             step4 == remove_tts_unfriendly_chars(step3)
             step5 == strip(CollapseWhitespace(step4))
         IN  IF NeedsStripping(step5)
             THEN strip(CollapseWhitespace(
                      SelectSeq(step5, LAMBDA ch : ch \notin {"{", "}", "[", "]", "<", ">"})))
             ELSE step5

\* the pieces the input texts are made of
Pieces ==
    { <<"h", "i">>,
      <<" ">>,
      <<"{">>,
      <<"}">>,
      <<"<", "b">>,
      <<"[", "x", "]">>,
      <<"a", "@", "b", ".", "c", "o">>,
      <<"@">>,
      <<"A", "P", "I">>,
      <<"_">>,
      <<"w", "e", "b">>,
      <<"h", "o", "o", "k">>,
      <<"5", "5", "5", "-", "1", "2", "3", "4">> }

RECURSIVE TextsOf(_)
TextsOf(n) ==
    IF n = 0 THEN {<<>>}
    ELSE TextsOf(n - 1) \cup {t \o piece : t \in TextsOf(n - 1), piece \in Pieces}

SanIdle ==
    /\ sanIn = <<>>
    /\ sanOut = <<>>
    /\ sanStage = "idle"

\* sanitize_for_tts(sanIn)
Sanitize ==
    /\ sanStage = "input"
    /\ sanOut' = sanitize_for_tts(sanIn)
    /\ sanStage' = "once"
    /\ UNCHANGED sanIn

\* sanitize_for_tts of what the first call returned
SanitizeAgain ==
    /\ sanStage = "once"
    /\ sanIn' = sanOut
    /\ sanOut' = sanitize_for_tts(sanOut)
    /\ sanStage' = "twice"

NextSan ==
    \/ Sanitize /\ UNCHANGED nonSanVars
    \/ SanitizeAgain /\ UNCHANGED nonSanVars

(***************************************************************************)
(* validate_template_variables (app/tts_sanitizer.py).  params maps names  *)
(* to strings.  str.format is modelled for the templates made of           *)
(* TemplateChars: literal text, "{{" and "}}", and fields "{name}" and     *)
(* "{name.attribute}"; what it raises is named by the exception's class.   *)
(***************************************************************************)
TemplateChars == {"{", "}", "n", "0", "."}
ParamNames == {<<"n">>, <<"0">>}
ParamValues == {<<"v">>, <<"{", "v">>}

RECURSIVE TemplatesOf(_)
TemplatesOf(n) ==
    IF n = 0 THEN {<<>>}
    ELSE TemplatesOf(n - 1) \cup {t \o <<ch>> : t \in TemplatesOf(n - 1), ch \in TemplateChars}

ParamDicts == UNION {[names -> ParamValues] : names \in SUBSET ParamNames}

\* re.findall(r'\{(\w+)\}', template), from position p on
RECURSIVE FindAllFrom(_, _)
FindAllFrom(template, p) ==
    LET ends == Ends(Lits(<<"{">>) \o <<Tok("cls", "w", "+")>> \o Lits(<<"}">>), 1, template, p)
    IN  IF ends # {}
        THEN LET e == CHOOSE x \in ends : TRUE
             IN  <<SubSeq(template, p + 2, e - 1)>> \o FindAllFrom(template, e)
        ELSE IF p < Len(template) THEN FindAllFrom(template, p + 1)
             ELSE <<>>

Returned(text) == [raised |-> "", value |-> text]
Raised(exception) == [raised |-> exception, value |-> <<>>]

\* the value str.format puts for the field "{field}"
FormatField(field, params) ==
    LET dots == {i \in DOMAIN field : field[i] = "."}
        first == IF dots = {} THEN field
                 ELSE SubSeq(field, 1, (CHOOSE i \in dots : \A j \in dots : i <= j) - 1)
    IN  IF first = <<>> \/ \A i \in DOMAIN first : first[i] \in Digits
        THEN Raised("IndexError")           \* a positional field, and no positional argument
        ELSE IF first \notin DOMAIN params THEN Raised("KeyError")
        ELSE IF dots # {}
             THEN IF field[Len(field)] = "." \/ IsIn(<<".", ".">>, field)
                  THEN Raised("ValueError")         \* empty attribute
                  ELSE Raised("AttributeError")     \* a str has no such attribute
        ELSE Returned(params[first])

\* template.format(**params)
RECURSIVE Format(_, _)
Format(template, params) ==
    LET Then(text, rest) ==
            LET tail == Format(rest, params)
            IN  IF tail.raised # "" THEN tail ELSE Returned(text \o tail.value)
        braces == {i \in 2..Len(template) : template[i] \in {"{", "}"}}
        close == CHOOSE i \in braces : \A j \in braces : i <= j
    IN  IF template = <<>> THEN Returned(<<>>)
        ELSE IF Head(template) = "{"
        THEN IF Len(template) >= 2 /\ template[2] = "{"
             THEN Then(<<"{">>, SubSeq(template, 3, Len(template)))
             ELSE IF braces = {} \/ template[close] = "{"
             THEN Raised("ValueError")
             ELSE LET value == FormatField(SubSeq(template, 2, close - 1), params)
                  IN  IF value.raised # "" THEN value
                      ELSE Then(value.value, SubSeq(template, close + 1, Len(template)))
        ELSE IF Head(template) = "}"
        THEN IF Len(template) >= 2 /\ template[2] = "}"
             THEN Then(<<"}">>, SubSeq(template, 3, Len(template)))
             ELSE Raised("ValueError")
        ELSE Then(<<Head(template)>>, Tail(template))

\* the three fixed utterances returned in place of a formatted text
Fallback(why) ==
    CASE why = "missing" ->
             <<"I", " ", "a", "p", "o", "l", "o", "g", "i", "z", "e", ",", " ", "b", 
               "u", "t", " ", "I", "'", "m", " ", "h", "a", "v", "i", "n", "g", " ", 
               "t", "r", "o", "u", "b", "l", "e", " ", "p", "r", "o", "c", "e", "s", 
               "s", "i", "n", "g", " ", "t", "h", "a", "t", " ", "i", "n", "f", "o", 
               "r", "m", "a", "t", "i", "o", "n", ".", " ", "C", "o", "u", "l", "d", 
               " ", "y", "o", "u", " ", "p", "l", "e", "a", "s", "e", " ", "r", "e", 
               "p", "e", "a", "t", "?">>
      [] why = "braces" ->
             <<"I", "'", "m", " ", "h", "e", "r", "e", " ", "t", "o", " ", "h", "e", 
               "l", "p", ".", " ", "W", "h", "a", "t", " ", "w", "o", "u", "l", "d", 
               " ", "y", "o", "u", " ", "l", "i", "k", "e", " ", "t", "o", " ", "d", 
               "o", " ", "n", "e", "x", "t", "?">>
      [] why = "error" ->
             <<"I", "'", "m", " ", "h", "e", "r", "e", " ", "t", "o", " ", "h", "e", 
               "l", "p", ".", " ", "H", "o", "w", " ", "c", "a", "n", " ", "I", " ", 
               "a", "s", "s", "i", "s", "t", " ", "y", "o", "u", "?">>

\* `except KeyError` and `except Exception`
IsCaught_key_error_only(exception) == exception = "KeyError"

IsCaught(exception) ==
    exception \in {"KeyError", "IndexError", "ValueError", "AttributeError"}

validate_template_variables(template, params) ==
    LET required_vars == FindAllFrom(template, 0)
        missing_vars == {i \in DOMAIN required_vars : required_vars[i] \notin DOMAIN params}
        formatted == Format(template, params)
    IN  IF missing_vars # {} THEN Returned(Fallback("missing"))
        ELSE IF formatted.raised # ""
        THEN IF IsCaught(formatted.raised) THEN Returned(Fallback("error")) ELSE formatted
        ELSE IF \E i \in DOMAIN formatted.value : formatted.value[i] \in {"{", "}"}
        THEN Returned(Fallback("braces"))
        ELSE formatted

TplIdle ==
    /\ tplTemplate = <<>>
    /\ tplParams = <<>>
    /\ tplOut = Returned(<<>>)
    /\ tplStage = "idle"

\* validate_template_variables(tplTemplate, tplParams)
Validate ==
    /\ tplStage = "input"
    /\ tplOut' = validate_template_variables(tplTemplate, tplParams)
    /\ tplStage' = "done"
    /\ UNCHANGED <<tplTemplate, tplParams>>

NextTpl == Validate /\ UNCHANGED nonTplVars

(***************************************************************************)
(* The catalogue of functions the relays send to the agent                 *)
(* (app/function_definitions.py).  A function's name is kept as the word   *)
(* before its first "_" and the rest; of its parameters the model keeps    *)
(* the names under "properties" and the list under "required".             *)
(***************************************************************************)
Func(head, rest, properties, required) ==
    [name |-> <<head, rest>>, properties |-> properties, required |-> required]

BOOKING_FUNCTIONS ==
    << Func("initiate", "booking", {"user_intent"}, <<"user_intent">>),
       Func("collect", "client_name", {"client_name"}, <<"client_name">>),
       Func("collect", "client_email", {"client_email"}, <<"client_email">>),
       Func("collect", "client_phone", {"client_phone"}, <<"client_phone">>),
       Func("collect", "company_name", {"company_name"}, <<"company_name">>),
       Func("collect", "booking_date", {"booking_date"}, <<"booking_date">>),
       Func("collect", "booking_time", {"booking_time"}, <<"booking_time">>),
       Func("collect", "service_type", {"service_type"}, <<"service_type">>),
       Func("collect", "purpose", {"purpose"}, <<"purpose">>),
       Func("confirm", "and_book",
            {"booking_date", "booking_time", "client_email", "client_name", "client_phone",
             "company_name", "purpose", "service_type"},
            <<"client_name", "client_email", "client_phone", "company_name", "booking_date",
             "booking_time", "service_type", "purpose">>) >>

RESCHEDULE_FUNCTIONS ==
    << Func("initiate", "reschedule", {"user_intent"}, <<"user_intent">>),
       Func("collect", "reschedule_email", {"client_email"}, <<"client_email">>),
       Func("collect", "new_date", {"new_date"}, <<"new_date">>),
       Func("collect", "new_time", {"new_time"}, <<"new_time">>),
       Func("confirm", "and_reschedule",
            {"client_email", "new_date", "new_time"},
            <<"client_email", "new_date", "new_time">>) >>

CANCEL_FUNCTIONS ==
    << Func("initiate", "cancel", {"user_intent"}, <<"user_intent">>),
       Func("collect", "cancel_email", {"client_email"}, <<"client_email">>),
       Func("confirm", "and_cancel", {"client_email"}, <<"client_email">>) >>

EMAIL_FUNCTIONS ==
    << Func("initiate", "email", {"user_intent"}, <<"user_intent">>),
       Func("collect", "email_recipient", {"recipient_email"}, <<"recipient_email">>),
       Func("collect", "email_subject", {"subject"}, <<"subject">>),
       Func("collect", "email_message", {"message"}, <<"message">>),
       Func("confirm", "and_send_email",
            {"message", "recipient_email", "subject"},
            <<"recipient_email", "subject", "message">>) >>

SMS_FUNCTIONS ==
    << Func("initiate", "sms", {"user_intent"}, <<"user_intent">>),
       Func("collect", "sms_phone", {"phone_number"}, <<"phone_number">>),
       Func("collect", "sms_message", {"message"}, <<"message">>),
       Func("confirm", "and_send_sms",
            {"message", "phone_number"},
            <<"phone_number", "message">>) >>

WHATSAPP_FUNCTIONS ==
    << Func("initiate", "whatsapp", {"user_intent"}, <<"user_intent">>),
       Func("collect", "whatsapp_phone", {"phone_number"}, <<"phone_number">>),
       Func("collect", "whatsapp_message", {"message"}, <<"message">>),
       Func("confirm", "and_send_whatsapp",
            {"message", "phone_number"},
            <<"phone_number", "message">>) >>

SIMPLE_FUNCTIONS ==
    << Func("continue", "conversation", {"response_text"}, <<"response_text">>),
       Func("search", "web", {"query"}, <<"query">>),
       Func("get", "current_datetime", {}, <<>>),
       Func("get", "location_info", {}, <<>>) >>

FUNCTION_DEFINITIONS ==
    BOOKING_FUNCTIONS \o RESCHEDULE_FUNCTIONS \o CANCEL_FUNCTIONS \o EMAIL_FUNCTIONS
        \o SMS_FUNCTIONS \o WHATSAPP_FUNCTIONS \o SIMPLE_FUNCTIONS

\* (variant: every function of the catalogue is selected)
StartsWith_any(name, head) == TRUE

\* name.startswith(head + "_")
StartsWith(name, head) == name[1] = head

\* param in func["parameters"]["properties"] and param in func["parameters"]["required"]
Requires(func, param) ==
    /\ param \in func.properties
    /\ \E i \in DOMAIN func.required : func.required[i] = param

\* the first words of the catalogue's names, and the names of its parameters
Heads == {FUNCTION_DEFINITIONS[i].name[1] : i \in DOMAIN FUNCTION_DEFINITIONS}
ParamsDeclared == UNION {FUNCTION_DEFINITIONS[i].properties : i \in DOMAIN FUNCTION_DEFINITIONS}

CatIdle ==
    /\ catPrefix = "" /\ catParam = ""
    /\ catIndex = 0 /\ catPassed = 0 /\ catFailed = 0

\* one turn of the loop over the functions whose name starts with the word
ExamineFunction ==
    /\ catPrefix # ""
    /\ catIndex < Len(FUNCTION_DEFINITIONS)
    /\ LET func == FUNCTION_DEFINITIONS[catIndex + 1]
           selected == StartsWith(func.name, catPrefix)
       IN  /\ catIndex' = catIndex + 1
           /\ catPassed' = IF selected /\ Requires(func, catParam) THEN catPassed + 1
                           ELSE catPassed
           /\ catFailed' = IF selected /\ ~Requires(func, catParam) THEN catFailed + 1
                           ELSE catFailed
    /\ UNCHANGED <<catPrefix, catParam>>

NextCatalogue ==
    ExamineFunction /\ UNCHANGED <<regVars, n8nVars, concVars, ctxVars, sanVars, tplVars,
                                   relayVars, payloadVars>>

(***************************************************************************)
(* The payload of call_n8n_action (app/n8n_client.py).  A dict is a map    *)
(* from its possible keys to values, "-" standing for a key it lacks.      *)
(***************************************************************************)
PayloadKeys == {"action", "session_id", "callback_url", "timestamp", "call_sid"}

NoPayload == [key \in PayloadKeys |-> Absent]

\* the caller's parameters: each key is missing or holds the caller's value
ParameterDicts == [PayloadKeys \ {"callback_url"} -> {Absent, "theirs"}]

Actions == {"log_call_summary", "send_sms"}
SessionIds == {"s1", "s2"}

\* datetime.utcnow().isoformat() as call_n8n_action reads it
OwnTimestamp == "t1"

\* {"k": v, ..., **more}: the keys of more are written over the literal's
DictWith(literal, more) ==
    [key \in PayloadKeys |->
        IF key \in DOMAIN more /\ more[key] # Absent THEN more[key] ELSE literal[key]]

\* payload = {"action": ..., "session_id": ..., "callback_url": ...,
\*            "timestamp": ..., **parameters}
BuildPayloadOf(action_, parameters_, session_id_, callback_url) ==
    DictWith([NoPayload EXCEPT !["action"] = action_,
                               !["session_id"] = session_id_,
                               !["callback_url"] = callback_url,
                               !["timestamp"] = OwnTimestamp],
             parameters_)

PayloadIdle ==
    /\ action = "" /\ parameters = NoPayload /\ session_id = "" /\ n8nPayload = NoPayload

BuildPayload ==
    /\ action # ""
    /\ n8nPayload = NoPayload
    /\ n8nPayload' = BuildPayloadOf(action, parameters, session_id, "None")
    /\ UNCHANGED <<action, parameters, session_id>>

NextPayload ==
    BuildPayload /\ UNCHANGED <<regVars, n8nVars, concVars, ctxVars, sanVars, tplVars,
                                relayVars, catVars>>

DataIdle == CatIdle /\ PayloadIdle

(***************************************************************************)
(* The relay: one connection of the browser endpoint /ws                   *)
(* (app/browser_ws.py) or of the telephony endpoint /media_stream          *)
(* (app/inbound_deepgram.py).  After the setup handshake with the agent,   *)
(* the pumps run as tasks of one event loop: a step of the model is what   *)
(* one task does between two awaits that can yield to another task.        *)
(* A send on a connection that has closed raises.                          *)
(***************************************************************************)
Relays == {"browser", "telephony"}

\* call_sid = None, and the id the start event of the modelled call carries
NoCallSid == 0
CallSid == 1

\* a frame on either socket: binary, or text holding a JSON object of which
\* the model keeps the type and the two fields the relay reads
Msg(kind, type, a, b) == [kind |-> kind, type |-> type, a |-> a, b |-> b]
Json(type, a, b) == Msg("text", type, a, b)
Bytes(data) == Msg("bytes", "", data, "")

\* text that json.loads rejects
NotJson == Msg("text", "<not json>", "", "")

\* base64 of the byte strings of the model
Base64 == [a1 |-> "YTE=", a2 |-> "YTI=", g1 |-> "ZzE="]

b64encode(data) == Base64[data]

\* (variant: every payload decodes to the same bytes)
Decodable_first(s) == {"a1"}

\* the byte strings s decodes to: none when b64decode raises on s
Decodable(s) == {data \in DOMAIN Base64 : Base64[data] = s}

b64decode(s) == CHOOSE data \in Decodable(s) : TRUE

\* x or y
Or(x, y) == IF x # Absent THEN x ELSE y

\* what the agent sends while the relay waits for SettingsApplied
SetupMessages ==
    { Json("SettingsApplied", "", ""), Json("Error", "", ""), Json("Welcome", "", ""),
      Bytes("g1"), NotJson }

\* what the browser sends
BrowserFrames ==
    {Json("websocket_audio", audio, "") : audio \in {"YTE=", "YTI=", "YTE", Absent}}
    \cup {Json("websocket_transcript", text, "") : text \in {"ok", " "}}
    \cup {Json(type, "", "") :
             type \in {"websocket_start", "keepalive", "silence_detected", "ping"}}
    \cup {NotJson}

\* what the telephony provider sends
TwilioFrames ==
    {Json("start", streamSid, "") : streamSid \in {"MZ1", Absent}}
    \cup {Json("media", payload, "") : payload \in {"YTE=", "YTI=", "YTE", ""}}
    \cup {Json(event, "", "") : event \in {"stop", "mark", "connected"}}
    \cup {NotJson}

\* what the agent sends in the duplex phase
AgentMessages ==
    {Bytes("g1"), NotJson}
    \cup {Json(type, "", "") :
             type \in {"UserStartedSpeaking", "AgentStartedSpeaking", "History"}}
    \cup {Json("ConversationText", role, "ok") : role \in Roles}
    \cup {Json("FunctionCallRequest", ids[1], ids[2]) :
             ids \in {<<"f1", Absent>>, <<Absent, "f2">>, <<Absent, Absent>>}}
    \cup {Json("Error", code, "") : code \in {"CLIENT_MESSAGE_TIMEOUT", "FAILED"}}

\* how `await handle_function_call(...)` ends: it raises, or returns a result:
\* a dict with a text under "speak", a dict without "speak", a dict with
\* something else than text under "speak", something that is not a dict,
\* or something json.dumps rejects
HandlerOutcomes ==
    {"raises", "speak", "no_speak", "speak_not_text", "not_a_dict", "not_serializable"}

\* (variant: only a result json.dumps rejects skips the send)
RaisesBeforeSend_serial_only(outcome) == outcome = "not_serializable"

\* the handler's result reaches neither json.dumps nor the send
RaisesBeforeSend(outcome) == outcome \in {"raises", "not_serializable"}

\* (variant: the line after the send takes every result)
RaisesAfterSend_never(outcome) == FALSE

\* result.get('speak', 'no speak')[:50], evaluated after the send, raises
RaisesAfterSend(outcome) == outcome \in {"speak_not_text", "not_a_dict"}

\* the text of the action's outcome before the handler makes a result of it
RawSpeak == <<"o", "k", " ", "{", "x", "}">>

\* the text the handler returns under "speak": the outcome's text, sanitized
DispatchedSpeak == sanitize_for_tts(RawSpeak)

\* result.get('speak', '')
SpeakOf(outcome) == IF outcome = "speak" THEN DispatchedSpeak ELSE <<>>

\* the texts under "speak" in json.dumps(result)
Spoken(outcome) == IF outcome = "speak" THEN <<SpeakOf(outcome)>> ELSE <<>>

Settings == Json("Settings", "", "")

FunctionCallResponse(function_id, output) ==
    Json("FunctionCallResponse", function_id, output)

ErrorOutput == "I'm sorry, something went wrong. Could you try again?"

\* (variant: the except clause speaks the exception)
ErrorSpeak_exception == <<"E", "r", "r", "o", "r", ":", " ", "{", "e", "}">>

\* the text under "speak" in the error response
ErrorSpeak ==
    << "I", "'", "m", " ", "s", "o", "r", "r", "y", ",", " ", "s",
       "o", "m", "e", "t", "h", "i", "n", "g", " ", "w", "e", "n",
       "t", " ", "w", "r", "o", "n", "g", ".", " ", "C", "o", "u",
       "l", "d", " ", "y", "o", "u", " ", "t", "r", "y", " ", "a",
       "g", "a", "i", "n", "?" >>

\* the seconds of silence between two check-ins of get_silence_response
CheckInSeconds == 6

MAX_TRANSCRIPT_ENTRIES == 500

Tasks == {"client", "agent", "watchdog"}

NoTasks == [t \in Tasks |-> "none"]

\* the tasks asyncio.gather starts
Gathered(relay) ==
    [t \in Tasks |-> IF t = "watchdog" /\ relay = "browser" THEN "none" ELSE "running"]

Over(status) == status \in {"none", "ended", "failed"}

NoConn ==
    [ relay |-> "none", phase |-> "idle", task |-> NoTasks,
      agentOpen |-> FALSE, clientOpen |-> FALSE,
      answer |-> Absent, clientIn |-> <<>>, agentIn |-> <<>>,
      upstream |-> <<>>, downstream |-> <<>>,
      call_sid |-> NoCallSid, stream_sid |-> Absent, spoke |-> FALSE,
      function_id |-> Absent, transcript |-> <<>>,
      contexts |-> {}, logged |-> 0, closes |-> 0, outcome |-> Absent,
      spoken |-> <<>>, budget |-> 0, turns |-> 0,
      log |-> [state |-> "none", configured |-> FALSE, answers |-> <<>>,
               posts |-> 0, raised |-> FALSE],
      slept |-> 0, spokeAt |-> NoTime, episode |-> 0, watched |-> FALSE,
      callbacks |-> 0, cbLogged |-> 0 ]

\* the connection once the client is accepted, the agent is connected and
\* the settings are sent
Accepted(relay) ==
    [ NoConn EXCEPT
        !.relay = relay, !.phase = "setup",
        !.agentOpen = TRUE, !.clientOpen = TRUE, !.budget = MaxFrames,
        !.upstream = <<Settings>>,
        !.downstream = IF relay = "browser" THEN <<Json("welcome", "", "")>> ELSE <<>> ]

RelayIdle == conn = NoConn

\* the frames the pumps may still take
Budget == Len(conn.clientIn) + Len(conn.agentIn) < conn.budget

\* (variant: any answer of the agent that names a type ends the setup)
SetupApplies_any(type) == type \in {"SettingsApplied", "Error"}

\* data.get("type") == "SettingsApplied"
SetupApplies(type) == type = "SettingsApplied"

\* the setup loop takes one message of the agent; `answer` keeps the type of
\* the message that ended the loop
SetupRecv(msg) ==
    /\ conn.phase = "setup"
    /\ conn.agentOpen
    /\ conn' =
          IF msg.kind = "bytes" THEN conn
          ELSE IF msg = NotJson
               THEN [conn EXCEPT !.phase = "teardown", !.answer = msg.type]
          ELSE IF SetupApplies(msg.type)
               THEN [conn EXCEPT !.phase = "duplex", !.answer = msg.type,
                                 !.task = Gathered(conn.relay)]
          ELSE IF msg.type = "Error"
               THEN [conn EXCEPT !.phase = "teardown", !.answer = msg.type]
          ELSE conn
    /\ UNCHANGED <<dict, ctxVars>>

\* (variant: a frame of a type the pump does not know ends the pump)
Unhandled_fatal(taken, failed) == failed

\* a frame whose type matches no branch of the pump's if/elif chain: the
\* loop goes to its next turn
Unhandled(taken, failed) == taken

\* browser_to_deepgram takes one frame of the browser
BrowserToDeepgram(frame) ==
    /\ conn.relay = "browser" /\ conn.phase = "duplex"
    /\ conn.task["client"] = "running"
    /\ conn.clientOpen
    /\ Budget
    /\ LET taken == [conn EXCEPT !.clientIn = Append(@, frame)]
           failed == [taken EXCEPT !.task["client"] = "failed"]
           sent(m) == [taken EXCEPT !.upstream = Append(@, m)]
       IN  conn' =
             IF frame = NotJson THEN failed
             ELSE IF frame.type = "websocket_audio"
                  THEN IF frame.a = Absent \/ Decodable(frame.a) = {} THEN failed
                       ELSE IF ~conn.agentOpen THEN failed
                       ELSE sent(Bytes(b64decode(frame.a)))
             ELSE IF frame.type = "websocket_transcript"
                  THEN IF frame.a = " " THEN taken
                       ELSE IF ~conn.agentOpen THEN failed
                       ELSE sent(Json("InjectUserMessage", frame.a, ""))
             ELSE IF frame.type = "websocket_start"
                  THEN [taken EXCEPT
                          !.downstream = Append(@, Json("websocket_ready", "", ""))]
             ELSE IF frame.type = "keepalive"
                  THEN IF ~conn.agentOpen THEN taken ELSE sent(Bytes("silence"))
             ELSE IF frame.type = "silence_detected"
                  THEN IF ~conn.agentOpen THEN taken
                       ELSE sent(Json("InjectAgentMessage", "", ""))
             ELSE Unhandled(taken, failed)
    /\ UNCHANGED <<dict, ctxVars>>

Connected == [NoFields EXCEPT !["status"] = "connected"]
Completed == [NoFields EXCEPT !["status"] = "completed"]

\* twilio_to_deepgram takes one frame of the telephony provider
TwilioToDeepgram(frame) ==
    /\ conn.relay = "telephony" /\ conn.phase = "duplex"
    /\ conn.task["client"] = "running"
    /\ conn.clientOpen
    /\ Budget
    /\ LET taken == [conn EXCEPT !.clientIn = Append(@, frame)]
           failed == [taken EXCEPT !.task["client"] = "failed"]
           looked == TTLDict_contains(dict, CallSid, now)
       IN  /\ conn' =
                IF frame = NotJson THEN failed
                ELSE IF frame.type = "start"
                     THEN [taken EXCEPT !.call_sid = CallSid, !.stream_sid = frame.a]
                ELSE IF frame.type = "media"
                     THEN IF frame.a = "" THEN taken
                          ELSE IF Decodable(frame.a) = {} \/ ~conn.agentOpen THEN failed
                          ELSE [taken EXCEPT
                                  !.upstream = Append(@, Bytes(b64decode(frame.a)))]
                ELSE IF frame.type = "stop"
                     THEN [taken EXCEPT !.task["client"] = "ended"]
                ELSE IF frame.type = "mark" THEN taken
                ELSE Unhandled(taken, failed)
           /\ dict' =
                IF frame = NotJson THEN dict
                ELSE IF frame.type = "start"
                     THEN IF TTLDict_contains_ret(dict, CallSid, now)
                          THEN TTLDict_update(looked, CallSid, Connected, now)
                          ELSE TTLDict_set(looked, CallSid, DictVal(Connected), now, now)
                ELSE IF frame.type = "stop" /\ conn.call_sid # NoCallSid
                     THEN IF TTLDict_contains_ret(dict, CallSid, now)
                          THEN TTLDict_update(looked, CallSid, Completed, now)
                          ELSE looked
                ELSE dict
    /\ UNCHANGED ctxVars

\* (variant: every Error of the agent is shown to the browser)
BrowserFrameFor_every_error(msg) ==
    IF msg.kind = "bytes" THEN <<Json("websocket_audio", b64encode(msg.a), "")>>
    ELSE IF msg.type = "UserStartedSpeaking" THEN <<Json("user_started_speaking", "", "")>>
    ELSE IF msg.type = "AgentStartedSpeaking" THEN <<Json("agent_started_speaking", "", "")>>
    ELSE IF msg.type = "ConversationText"
         THEN IF msg.a = "assistant" THEN <<Json("agent_response", msg.b, "")>>
              ELSE IF msg.a = "user" THEN <<Json("websocket_transcript", msg.b, "")>>
              ELSE <<>>
    ELSE IF msg.type = "Error" THEN <<Json("error", "Deepgram error", "")>>
    ELSE <<msg>>

\* the frame deepgram_to_browser sends to the browser for a message of the
\* agent, <<>> for none
BrowserFrameFor(msg) ==
    IF msg.kind = "bytes" THEN <<Json("websocket_audio", b64encode(msg.a), "")>>
    ELSE IF msg.type = "UserStartedSpeaking" THEN <<Json("user_started_speaking", "", "")>>
    ELSE IF msg.type = "AgentStartedSpeaking" THEN <<Json("agent_started_speaking", "", "")>>
    ELSE IF msg.type = "ConversationText"
         THEN IF msg.a = "assistant" THEN <<Json("agent_response", msg.b, "")>>
              ELSE IF msg.a = "user" THEN <<Json("websocket_transcript", msg.b, "")>>
              ELSE <<>>
    ELSE IF msg.type = "Error"
         THEN IF msg.a = "CLIENT_MESSAGE_TIMEOUT" THEN <<>>
              ELSE <<Json("error", "Deepgram error", "")>>
    ELSE <<msg>>

\* (variant: only audio goes to the provider)
TwilioFrameFor_audio_only(msg, stream_sid) ==
    IF msg.kind = "bytes" THEN <<Json("media", stream_sid, b64encode(msg.a))>>
    ELSE <<>>

\* the frame deepgram_to_twilio sends to the provider, <<>> for none
TwilioFrameFor(msg, stream_sid) ==
    IF msg.kind = "bytes" THEN <<Json("media", stream_sid, b64encode(msg.a))>>
    ELSE IF msg.type = "UserStartedSpeaking" /\ stream_sid # Absent
         THEN <<Json("clear", stream_sid, "")>>
    ELSE <<>>

\* what the transcript gains by one entry of the role
\* (variant: the newest turn is put first)
Logged_first(transcript, role) ==
    IF Len(transcript) < MAX_TRANSCRIPT_ENTRIES THEN <<role>> \o transcript
    ELSE transcript

Logged(transcript, role) ==
    IF Len(transcript) < MAX_TRANSCRIPT_ENTRIES THEN Append(transcript, role)
    ELSE transcript

\* the agent-side pump takes one message of the agent; a FunctionCallRequest
\* leaves it awaiting the function handler.  Of the latest user turn the
\* connection keeps the time (`spokeAt`), what had gone upstream by then
\* (`episode`) and whether the watchdog was still running (`watched`)
AgentRecv(msg) ==
    /\ conn.phase = "duplex"
    /\ conn.task["agent"] = "running"
    /\ conn.agentOpen
    /\ Budget
    /\ LET taken == [conn EXCEPT !.agentIn = Append(@, msg)]
           failed == [taken EXCEPT !.task["agent"] = "failed"]
           frames == IF conn.relay = "browser" THEN BrowserFrameFor(msg)
                     ELSE TwilioFrameFor(msg, conn.stream_sid)
           function_id == Or(msg.a, msg.b)
           userText == msg.type = "ConversationText" /\ msg.a = "user"
           heard == conn.relay = "telephony" /\ userText /\ conn.call_sid # NoCallSid
       IN  /\ conn' =
                IF msg = NotJson THEN failed
                ELSE IF msg.type = "FunctionCallRequest"
                     THEN [taken EXCEPT
                             !.task["agent"] = "handler",
                             !.function_id =
                                 IF conn.relay = "telephony" /\ function_id = Absent
                                 THEN "generated" ELSE function_id]
                ELSE IF frames # <<>> /\ ~conn.clientOpen THEN failed
                ELSE IF conn.relay = "browser"
                     THEN [taken EXCEPT !.downstream = @ \o frames]
                ELSE IF msg.type = "ConversationText"
                     THEN [taken EXCEPT
                             !.spoke = @ \/ userText,
                             !.spokeAt = IF userText THEN ctxNow ELSE @,
                             !.episode = IF userText THEN Len(conn.upstream) ELSE @,
                             !.watched = IF userText THEN conn.task["watchdog"] = "running"
                                         ELSE @,
                             !.contexts = IF heard THEN @ \cup {conn.call_sid} ELSE @,
                             !.turns = @ + 1,
                             !.transcript =
                                 IF Len(@) = MAX_TRANSCRIPT_ENTRIES
                                 THEN Append(@, "system") ELSE Logged(@, msg.a)]
                ELSE [taken EXCEPT !.downstream = @ \o frames]
           /\ IF heard THEN AddTurn("user", <<"o", "k">>) ELSE UNCHANGED ctxVars
    /\ UNCHANGED dict

\* the function handler ends: the response goes upstream, and the pump is
\* back at its loop unless the exception handler's own send raises;
\* `outcome` keeps how the handler ended, `spoken` the texts sent under
\* "speak", `turns` the turns that have come to the transcript, kept or not
HandlerReturns(outcome) ==
    /\ conn.phase = "duplex"
    /\ conn.task["agent"] = "handler"
    /\ LET response == FunctionCallResponse(conn.function_id, outcome)
           error_response == FunctionCallResponse(conn.function_id, ErrorOutput)
           back == [conn EXCEPT !.task["agent"] = "running", !.function_id = Absent,
                                !.outcome = outcome]
           done == ~RaisesBeforeSend(outcome) /\ ~RaisesAfterSend(outcome)
                   /\ conn.agentOpen
           tracked == done /\ conn.relay = "telephony" /\ conn.call_sid # NoCallSid
       IN  /\ conn' =
                IF ~conn.agentOpen
                THEN [conn EXCEPT !.task["agent"] = "failed", !.function_id = Absent,
                                  !.outcome = outcome]
                ELSE IF RaisesBeforeSend(outcome)
                     THEN [back EXCEPT !.upstream = Append(@, error_response),
                                       !.spoken = Append(@, ErrorSpeak)]
                ELSE IF RaisesAfterSend(outcome)
                     THEN [back EXCEPT !.upstream = @ \o <<response, error_response>>,
                                       !.spoken = @ \o Spoken(outcome) \o <<ErrorSpeak>>]
                ELSE IF conn.relay = "browser"
                     THEN [back EXCEPT !.upstream = Append(@, response),
                                       !.spoken = @ \o Spoken(outcome)]
                ELSE [back EXCEPT
                        !.upstream = Append(@, response),
                        !.spoken = @ \o Spoken(outcome),
                        !.turns = @ + 1,
                        !.transcript = Logged(@, "function"),
                        !.contexts = IF tracked THEN @ \cup {conn.call_sid} ELSE @]
           /\ IF tracked THEN AddTurn("assistant", SpeakOf(outcome))
              ELSE UNCHANGED ctxVars
    /\ UNCHANGED dict

\* silence_monitor wakes from its sleep and polls the context
SilenceMonitor ==
    /\ conn.relay = "telephony" /\ conn.phase = "duplex"
    /\ conn.task["watchdog"] = "running"
    /\ IF conn.spoke /\ conn.call_sid # NoCallSid
       THEN LET level == SilenceBranch(get_silence_duration, silence_count)
                known == [conn EXCEPT !.contexts = @ \cup {conn.call_sid},
                                      !.slept = 0]
            IN  /\ GetSilenceResponse
                /\ conn' =
                     IF level = 0 THEN known
                     ELSE IF ~conn.agentOpen
                          THEN [known EXCEPT !.task["watchdog"] = "ended"]
                     ELSE [known EXCEPT
                             !.upstream =
                                 Append(@, Json("InjectAgent", SilenceMessage(level), "")),
                             !.task["watchdog"] =
                                 IF get_silence_duration >= 18 THEN "ended" ELSE @]
       ELSE conn' = [conn EXCEPT !.slept = 0] /\ UNCHANGED ctxVars
    /\ UNCHANGED dict

\* silence_monitor polls, has a text to send, and its send yields to the
\* event loop: the message is on its way and the watchdog is suspended in
\* `await deepgram_ws.send(...)`
SilenceMonitorSuspends ==
    /\ conn.relay = "telephony" /\ conn.phase = "duplex"
    /\ conn.task["watchdog"] = "running"
    /\ conn.spoke /\ conn.call_sid # NoCallSid
    /\ conn.agentOpen
    /\ SilenceBranch(get_silence_duration, silence_count) # 0
    /\ GetSilenceResponse
    /\ conn' = [conn EXCEPT
                  !.contexts = @ \cup {conn.call_sid},
                  !.slept = 0,
                  !.upstream =
                      Append(@, Json("InjectAgent",
                                     SilenceMessage(SilenceBranch(get_silence_duration,
                                                                  silence_count)), "")),
                  !.task["watchdog"] = "sending"]
    /\ UNCHANGED dict

\* the suspended send returns (or raises, the agent's connection having
\* closed) and the watchdog goes on to its check of the 18 seconds, which
\* reads the context as it is by then
SilenceSendReturns ==
    /\ conn.phase = "duplex"
    /\ conn.task["watchdog"] = "sending"
    /\ conn' = [conn EXCEPT
                  !.slept = 0,
                  !.task["watchdog"] =
                      IF ~conn.agentOpen THEN "ended"
                      ELSE IF get_silence_duration >= 18 THEN "ended"
                      ELSE "running"]
    /\ UNCHANGED <<dict, ctxVars>>

\* (variant: the watchdog sleeps longer than a check-in interval between two polls)
PollSeconds_slow == CheckInSeconds + 2

\* await asyncio.sleep(2)
PollSeconds == 2

\* a second passes; the watchdog's sleep does not outlast its interval
WatchTick ==
    /\ conn.phase = "duplex"
    /\ ctxNow < MaxSilence
    /\ conn.task["watchdog"] = "running" => conn.slept < PollSeconds
    /\ conn.task["watchdog"] # "sending"
    /\ ctxNow' = ctxNow + 1
    /\ ctxLast' = CtxResult("tick", "", <<>>, None, NoTime)
    /\ conn' = [conn EXCEPT
                  !.slept = IF conn.task["watchdog"] = "running" THEN @ + 1 ELSE @]
    /\ UNCHANGED <<history, user_sentiment, clarification_count, retry_count,
                   last_user_speech_time, silence_count, fired>>
    /\ UNCHANGED dict

\* the watchdog's sleep is over
WatchPoll == conn.slept = PollSeconds /\ SilenceMonitor

\* the clock moves on by the interval between two check-ins
RelayTick ==
    /\ conn.phase = "duplex"
    /\ last_user_speech_time # NoTime
    /\ ctxNow + CheckInSeconds <= MaxClock
    /\ ctxNow' = ctxNow + CheckInSeconds
    /\ ctxLast' = CtxResult("tick", "", <<>>, None, NoTime)
    /\ UNCHANGED <<history, user_sentiment, clarification_count, retry_count,
                   last_user_speech_time, silence_count, fired>>
    /\ UNCHANGED <<conn, dict>>

\* the client goes away: the receive of the client-side pump raises
\* WebSocketDisconnect, which ends the pump
ClientDisconnects ==
    /\ conn.phase \in {"setup", "duplex"}
    /\ conn.clientOpen
    /\ conn' = [conn EXCEPT
                  !.clientOpen = FALSE,
                  !.task["client"] = IF @ = "running" THEN "ended" ELSE @]
    /\ UNCHANGED <<dict, ctxVars>>

\* the client left during the setup: the first receive of the client-side
\* pump raises WebSocketDisconnect, which ends the pump
ClientRecvRaises ==
    /\ conn.phase = "duplex"
    /\ conn.task["client"] = "running"
    /\ ~conn.clientOpen
    /\ conn' = [conn EXCEPT !.task["client"] = "ended"]
    /\ UNCHANGED <<dict, ctxVars>>

\* the agent closes the connection: the setup loop's recv raises; the
\* agent-side pump's `async for` ends on a normal close and raises otherwise
AgentCloses(normal) ==
    /\ conn.phase \in {"setup", "duplex"}
    /\ conn.agentOpen
    /\ conn' = [conn EXCEPT
                  !.agentOpen = FALSE,
                  !.phase = IF @ = "setup" THEN "teardown" ELSE @,
                  !.answer = IF @ = Absent THEN "<closed>" ELSE @,
                  !.task["agent"] =
                      IF @ = "running" THEN (IF normal THEN "ended" ELSE "failed")
                      ELSE @]
    /\ UNCHANGED <<dict, ctxVars>>

\* asyncio.gather returns once every task is over
GatherReturns ==
    /\ conn.phase = "duplex"
    /\ \A t \in Tasks : Over(conn.task[t])
    /\ conn' = [conn EXCEPT !.phase = "teardown"]
    /\ UNCHANGED <<dict, ctxVars>>

\* the finally clause: the telephony relay hands the call to the call log
\* and drops it from the registry; both relays close the client socket
Finally ==
    /\ conn.phase = "teardown"
    /\ LET known == conn.relay = "telephony" /\ conn.call_sid # NoCallSid
       IN  /\ conn' = [conn EXCEPT
                         !.phase = "closed",
                         !.agentOpen = FALSE,
                         !.clientOpen = FALSE,
                         !.logged = IF known THEN @ + 1 ELSE @,
                         !.log.state = IF known THEN "created" ELSE @,
                         !.closes = @ + 1]
           /\ dict' = IF known THEN TTLDict_delete(dict, conn.call_sid) ELSE dict
    /\ UNCHANGED ctxVars

\* @async_retry(max_retries=3, ...) on log_call_to_supabase
max_retries == 3

\* what the call-log sink does with a POST: an HTTP status, or the client raises
SinkAnswers == {"201", "500", "raises"}

\* log_call_to_supabase raises to its caller: never, its body is one
\* try/except Exception that logs, and a status other than 200 and 201 is
\* logged in the else branch
LogCallRaises(answer) == FALSE

\* the calls async_retry's wrapper makes when the sink answers the i-th
\* POST with answers[i]: it returns at the first call that does not raise
Attempts(answers) ==
    IF \E i \in 1..max_retries : ~LogCallRaises(answers[i])
    THEN CHOOSE i \in 1..max_retries :
             /\ ~LogCallRaises(answers[i])
             /\ \A j \in 1..(i - 1) : LogCallRaises(answers[j])
    ELSE max_retries

\* the task the finally clause created runs log_call_to_supabase under
\* async_retry; without credentials the function returns before any POST
LogCallToSupabase(configured, answers) ==
    /\ conn.phase = "closed"
    /\ conn.log.state = "created"
    /\ conn' = [conn EXCEPT
                  !.log = [state |-> "done", configured |-> configured,
                           answers |-> IF configured THEN answers ELSE <<>>,
                           posts |-> IF configured THEN Attempts(answers) ELSE 0,
                           raised |-> \A i \in 1..max_retries :
                                          LogCallRaises(answers[i])]]
    /\ UNCHANGED <<dict, ctxVars>>

\* CallStatus in the form the telephony provider posts to /call_status_callback
CallStatuses == {"ringing", "in-progress", "completed", "failed"}

\* CallDuration in the form: missing, or seconds
CallDurations == {Absent, "7"}

\* updates = {"status": call_status}, and "duration" when the form has one
CallbackUpdates(call_status, duration) ==
    [NoFields EXCEPT !["status"] = call_status, !["duration"] = duration]

\* call_status_callback for the call of the connection: the handler runs
\* without an await between reading the form and returning, so it is one
\* step of the event loop; on "completed" it reads the entry and, when there
\* is one, creates a task that hands it to the call log
StatusCallback(call_status, duration) ==
    /\ conn.callbacks < MaxCallbacks
    /\ LET looked == TTLDict_contains(dict, CallSid, now)
           updated ==
               IF TTLDict_contains_ret(dict, CallSid, now)
               THEN TTLDict_update(looked, CallSid,
                                   CallbackUpdates(call_status, duration), now)
               ELSE looked
           call_data == TTLDict_get_ret(updated, CallSid, now)
       IN  /\ dict' = IF call_status = "completed"
                      THEN TTLDict_get(updated, CallSid, now)
                      ELSE updated
           /\ conn' = [conn EXCEPT
                         !.callbacks = @ + 1,
                         !.cbLogged =
                             IF call_status = "completed" /\ call_data # NoneVal
                             THEN @ + 1 ELSE @]
    /\ UNCHANGED ctxVars

RelayFrame ==
    UNCHANGED <<now, last, written, insOrder, n8nVars, concVars, sanVars, tplVars, dataVars>>

\* the telephony relay under the clock: the start event, the turns of the
\* conversation, the watchdog's polls and the agent's leaving
WatchMessages == {Json("ConversationText", role, "ok") : role \in Roles}

NextWatch ==
    \/ TwilioToDeepgram(Json("start", "MZ1", "")) /\ RelayFrame
    \/ \E msg \in WatchMessages : AgentRecv(msg) /\ RelayFrame
    \/ WatchTick /\ RelayFrame
    \/ WatchPoll /\ RelayFrame
    \/ conn.slept = PollSeconds /\ SilenceMonitorSuspends /\ RelayFrame
    \/ SilenceSendReturns /\ RelayFrame
    \/ \E normal \in BOOLEAN : AgentCloses(normal) /\ RelayFrame

\* the telephony relay late in a long call: conversation texts and function
\* calls come to a transcript that has little room left
TranscriptMessages ==
    {Json("ConversationText", role, "ok") : role \in Roles}
    \cup {Json("FunctionCallRequest", "f1", Absent)}

NextTranscript ==
    \/ TwilioToDeepgram(Json("start", "MZ1", "")) /\ RelayFrame
    \/ \E msg \in TranscriptMessages : AgentRecv(msg) /\ RelayFrame
    \/ \E outcome \in HandlerOutcomes : HandlerReturns(outcome) /\ RelayFrame

\* one telephony call from the stream's start to its teardown, with the
\* provider's status callbacks arriving whenever they do
CallFrames == {Json("start", "MZ1", ""), Json("stop", "", "")}

NextCall ==
    \/ \E frame \in CallFrames : TwilioToDeepgram(frame) /\ RelayFrame
    \/ \E call_status \in CallStatuses, duration \in CallDurations :
           StatusCallback(call_status, duration) /\ RelayFrame
    \/ AgentRecv(Json("ConversationText", "user", "ok")) /\ RelayFrame
    \/ SilenceMonitor /\ RelayFrame
    \/ RelayTick /\ RelayFrame
    \/ ClientDisconnects /\ RelayFrame
    \/ AgentCloses(TRUE) /\ RelayFrame
    \/ GatherReturns /\ RelayFrame
    \/ Finally /\ RelayFrame

NextRelay ==
    \/ \E msg \in SetupMessages : SetupRecv(msg) /\ RelayFrame
    \/ \E frame \in BrowserFrames : BrowserToDeepgram(frame) /\ RelayFrame
    \/ \E frame \in TwilioFrames : TwilioToDeepgram(frame) /\ RelayFrame
    \/ \E msg \in AgentMessages : AgentRecv(msg) /\ RelayFrame
    \/ \E outcome \in HandlerOutcomes : HandlerReturns(outcome) /\ RelayFrame
    \/ SilenceMonitor /\ RelayFrame
    \/ RelayTick /\ RelayFrame
    \/ ClientDisconnects /\ RelayFrame
    \/ ClientRecvRaises /\ RelayFrame
    \/ \E normal \in BOOLEAN : AgentCloses(normal) /\ RelayFrame
    \/ GatherReturns /\ RelayFrame
    \/ Finally /\ RelayFrame
    \/ \E configured \in BOOLEAN, answers \in [1..max_retries -> SinkAnswers] :
           LogCallToSupabase(configured, answers) /\ RelayFrame

(***************************************************************************)
(* Specifications: each runs one component and leaves the others idle.     *)
(***************************************************************************)
RestIdle == CtxIdle /\ SanIdle /\ TplIdle /\ RelayIdle /\ DataIdle

InitReg == RegIdle /\ N8nIdle /\ ConcIdle /\ RestIdle

SpecReg == InitReg /\ [][NextReg]_vars

InitConc ==
    /\ dict \in ConcStores
    /\ now = 0
    /\ last = Result("init", 0, <<>>, {})
    /\ written = [k \in Keys |-> NoEntry]
    /\ insOrder = <<>>
    /\ N8nIdle
    /\ RestIdle
    /\ lock = 0
    /\ th = [t \in Threads |-> NoCall]
    /\ seqDict = dict

SpecConc == InitConc /\ [][NextConc]_vars

InitN8n == RegIdle /\ N8nIdle /\ ConcIdle /\ RestIdle

SpecN8n == InitN8n /\ [][NextN8n]_vars

\* the event loop resumes the coroutine, and every attempt ends within its timeout
SpecN8nFair == SpecN8n /\ WF_vars(NextN8n)

InitSilence == RegIdle /\ N8nIdle /\ ConcIdle /\ RestIdle

SpecSilence == InitSilence /\ [][NextSilence]_vars

InitCtx == RegIdle /\ N8nIdle /\ ConcIdle /\ RestIdle

SpecCtx == InitCtx /\ [][NextCtx]_vars

InitSan ==
    /\ RegIdle /\ N8nIdle /\ ConcIdle /\ CtxIdle /\ TplIdle /\ RelayIdle /\ DataIdle
    /\ sanIn \in TextsOf(MaxPieces)
    /\ sanOut = <<>>
    /\ sanStage = "input"

SpecSan == InitSan /\ [][NextSan]_vars

InitTpl ==
    /\ RegIdle /\ N8nIdle /\ ConcIdle /\ CtxIdle /\ SanIdle /\ RelayIdle /\ DataIdle
    /\ tplTemplate \in TemplatesOf(MaxTemplateLen)
    /\ tplParams \in ParamDicts
    /\ tplOut = Returned(<<>>)
    /\ tplStage = "input"

SpecTpl == InitTpl /\ [][NextTpl]_vars

InitRelay ==
    /\ now = 0
    /\ last = Result("init", 0, <<>>, {})
    /\ written = [k \in Keys |-> NoEntry]
    /\ insOrder = <<>>
    /\ dict \in ConcStores
    /\ N8nIdle /\ ConcIdle /\ CtxIdle /\ SanIdle /\ TplIdle /\ DataIdle
    /\ conn \in {Accepted(relay) : relay \in Relays}

SpecRelay == InitRelay /\ [][NextRelay]_vars

\* the event loop resumes every task that can run: the watchdog wakes from
\* each sleep, time passes, the function handler ends, gather returns once
\* its tasks are over and the finally clause runs; what the client and the
\* agent send, and when they leave, is up to them
SpecRelayFair ==
    /\ SpecRelay
    /\ WF_vars(SilenceMonitor /\ RelayFrame)
    /\ WF_vars(RelayTick /\ RelayFrame)
    /\ WF_vars(ClientRecvRaises /\ RelayFrame)
    /\ WF_vars(\E outcome \in HandlerOutcomes : HandlerReturns(outcome) /\ RelayFrame)
    /\ WF_vars(GatherReturns /\ RelayFrame)
    /\ WF_vars(Finally /\ RelayFrame)
    /\ WF_vars(\E configured \in BOOLEAN, answers \in [1..max_retries -> SinkAnswers] :
                   LogCallToSupabase(configured, answers) /\ RelayFrame)

\* the telephony connection as the setup loop leaves it on SettingsApplied
InitWatch ==
    /\ now = 0
    /\ last = Result("init", 0, <<>>, {})
    /\ written = [k \in Keys |-> NoEntry]
    /\ insOrder = <<>>
    /\ dict \in ConcStores
    /\ N8nIdle /\ ConcIdle /\ CtxIdle /\ SanIdle /\ TplIdle /\ DataIdle
    /\ conn = [Accepted("telephony") EXCEPT
                  !.phase = "duplex", !.answer = "SettingsApplied",
                  !.task = Gathered("telephony"), !.budget = MaxFrames + 1]

SpecWatch == InitWatch /\ [][NextWatch]_vars

\* a telephony connection in the duplex phase whose transcript has room for
\* MaxRoom entries at most
InitTranscript ==
    /\ now = 0
    /\ last = Result("init", 0, <<>>, {})
    /\ written = [k \in Keys |-> NoEntry]
    /\ insOrder = <<>>
    /\ dict \in ConcStores
    /\ N8nIdle /\ ConcIdle /\ CtxIdle /\ SanIdle /\ TplIdle /\ DataIdle
    /\ \E room \in 0..MaxRoom :
          conn = [Accepted("telephony") EXCEPT
                    !.phase = "duplex", !.answer = "SettingsApplied",
                    !.task = Gathered("telephony"), !.budget = MaxFrames + 1,
                    !.turns = MAX_TRANSCRIPT_ENTRIES - room,
                    !.transcript =
                        [i \in 1..(MAX_TRANSCRIPT_ENTRIES - room) |-> "assistant"]]

SpecTranscript == InitTranscript /\ [][NextTranscript]_vars

\* the loop of test_intent_parameters, for any first word and any parameter
InitCatalogue ==
    /\ RegIdle /\ N8nIdle /\ ConcIdle /\ CtxIdle /\ SanIdle /\ TplIdle /\ RelayIdle
    /\ PayloadIdle
    /\ catPrefix \in Heads
    /\ catParam \in ParamsDeclared
    /\ catIndex = 0 /\ catPassed = 0 /\ catFailed = 0

SpecCatalogue == InitCatalogue /\ [][NextCatalogue]_vars

InitPayload ==
    /\ RegIdle /\ N8nIdle /\ ConcIdle /\ CtxIdle /\ SanIdle /\ TplIdle /\ RelayIdle
    /\ CatIdle
    /\ action \in Actions
    /\ parameters \in ParameterDicts
    /\ session_id \in SessionIds
    /\ n8nPayload = NoPayload

SpecPayload == InitPayload /\ [][NextPayload]_vars

\* a telephony connection in the duplex phase; the webhook of the call has
\* set its entry, unless the registry has dropped it since
InitCall ==
    /\ now = 0
    /\ last = Result("init", 0, <<>>, {})
    /\ written = [k \in Keys |-> NoEntry]
    /\ insOrder = <<>>
    /\ dict \in ConcStores
    /\ N8nIdle /\ ConcIdle /\ CtxIdle /\ SanIdle /\ TplIdle /\ DataIdle
    /\ conn = [Accepted("telephony") EXCEPT
                  !.phase = "duplex", !.answer = "SettingsApplied",
                  !.task = Gathered("telephony"), !.budget = MaxFrames + 1]

SpecCall == InitCall /\ [][NextCall]_vars

(***************************************************************************)
(* Properties of the registry under concurrent callers.                    *)
(***************************************************************************)
InBody(t) == th[t].pc \notin {"idle", "acquire"}

\* C5: under any interleaving of calls from different threads each call
\* takes effect atomically: only the holder of the lock is inside a method
\* body (so nobody reads an entry while an update has merged only part of
\* its fields), between calls the store is what the completed calls leave
\* when run one after another in the order they took the lock, and every
\* call returned what it returns in that sequential run.
C5_CallsAreAtomic ==
    /\ \A t \in Threads : InBody(t) => lock = t
    /\ \A t, u \in Threads :
          (t # u /\ th[t].pc = "upd_merge") => ~InBody(u)
    /\ lock = 0 => dict = seqDict
    /\ \A t \in Threads : th[t].lin

\* one thread has merged one of the two fields of its update while another
\* thread, calling get for the same key, waits for the lock
C5_Witness ==
    \E t, u \in Threads :
        /\ t # u
        /\ th[t].pc = "upd_merge"
        /\ Cardinality(th[t].todo) = 1
        /\ th[u].pc = "acquire"
        /\ th[u].op = "get"
        /\ th[u].key = th[t].key

(***************************************************************************)
(* Properties of call_n8n_action.                                          *)
(***************************************************************************)
LastIssued == issued[Len(issued)]

\* an attempt that ended in a 5xx response, a 429 response, a timeout or a
\* connection error
IsTransientFailure(o) ==
    \/ o.kind \in {"timeout", "error"}
    \/ o.kind = "http" /\ (o.status = 429 \/ o.status >= 500)

MaxRetriesExceeded == <<"Max retries exceeded", 0>>

\* C6: a 4xx answer other than 429 ends the call at once: success is false,
\* no further request is issued, and attempts is the number of requests
\* issued so far (1 when it is the first answer).
C6_ClientErrorFailsFast ==
    (/\ Len(issued) > 0
     /\ LastIssued.kind = "http"
     /\ LastIssued.status \in 400..499
     /\ LastIssued.status # 429)
    => /\ n8nPc = "done"
       /\ result.success = FALSE
       /\ result.error = <<"Client error", LastIssued.status>>
       /\ result.attempts = Len(issued)

\* the first answer was a 404 and the call is over
C6_Witness ==
    /\ n8nPc = "done"
    /\ issued = <<Http(404, TRUE)>>
    /\ result.success = FALSE
    /\ result.attempts = 1

\* C7: when every attempt ends in a 5xx, a 429, a timeout or a connection
\* error, exactly MAX_RETRIES requests are issued, and the call then
\* returns success false, 'Max retries exceeded', attempts = MAX_RETRIES.
C7_ExhaustsAfterMaxRetries ==
    (\A i \in 1..Len(issued) : IsTransientFailure(issued[i]))
    => /\ Len(issued) <= MAX_RETRIES
       /\ n8nPc = "done" =>
             /\ Len(issued) = MAX_RETRIES
             /\ result.success = FALSE
             /\ result.error = MaxRetriesExceeded
             /\ result.attempts = MAX_RETRIES

\* a 500, a timeout and a 429 in a row, and the call is over
C7_Witness ==
    /\ n8nPc = "done"
    /\ issued = <<Http(500, TRUE), Timeout, Http(429, TRUE)>>
    /\ result.error = MaxRetriesExceeded

\* C8: for every sequence of gateway outcomes the call ends with an
\* envelope whose attempts is the number of requests issued, between 1 and
\* MAX_RETRIES; two 500s followed by a 200 give success with attempts 3.
C8_AttemptsCountRequests ==
    /\ [](n8nPc = "done" =>
            /\ result.attempts = Len(issued)
            /\ result.attempts \in 1..MAX_RETRIES
            /\ issued = <<Http(500, TRUE), Http(500, TRUE), Http(200, TRUE)>>
                  => (result.success /\ result.attempts = 3))
    /\ <>(n8nPc = "done")

\* two 500s, then a 200, and the call succeeded
C8_Witness ==
    /\ n8nPc = "done"
    /\ issued = <<Http(500, TRUE), Http(500, TRUE), Http(200, TRUE)>>
    /\ result.success

\* C9: every answer with a status from 200 to 299 (and a JSON body) ends
\* the call at once with success true and the parsed payload.
C9_Any2xxSucceeds ==
    (/\ Len(issued) > 0
     /\ LastIssued.kind = "http"
     /\ LastIssued.status \in 200..299
     /\ LastIssued.json)
    => /\ n8nPc = "done"
       /\ result.success
       /\ result.data = "payload"

\* C10: an envelope 'Max retries exceeded' carries in last_error the error
\* of the final failed attempt, never None, whichever way the attempts
\* failed.
C10_LastErrorCaptured ==
    (n8nPc = "done" /\ result.error = MaxRetriesExceeded)
    => /\ result.last_error # "None"
       /\ LastIssued.kind = "timeout" => result.last_error = "timeout"
       /\ LastIssued.kind = "error" => result.last_error = "connect"
       /\ LastIssued.kind = "http" => result.last_error \notin {"timeout", "connect"}

(***************************************************************************)
(* Properties of the registry.                                             *)
(***************************************************************************)
Visible(k) == written[k] # NoEntry

\* C1: the number of stored entries never exceeds max_size, and neither
\* does the number that len() returns.
C1_SizeBounded ==
    /\ Len(dict) <= MaxSize
    /\ last.op = "len" => last.ret[1] <= MaxSize

\* more distinct keys than max_size were set, and the store is full
C1_Witness ==
    /\ last.op = "set"
    /\ {"full", "new"} \subseteq last.flags
    /\ Len(dict) = MaxSize

\* C2: the entry of set(k, v) at time t is stored and returned by get, `in`
\* and values() at every time before t + ttl unless it was deleted or
\* evicted (an update merges into the same value object), and from t + ttl
\* on get returns the default, `in` is false and values() omits it.
C2_VisibleUntilTtl ==
    /\ \A k \in Keys :
          Visible(k) =>
              /\ HasKey(dict, k)
              /\ Entry(dict, k).ts = written[k].ts
              /\ Entry(dict, k).val = written[k].val
              /\ now < written[k].ts + Ttl
    /\ last.op = "get" => last.ret[1] = written[last.key].val
    /\ last.op = "contains" => last.ret[1] = Visible(last.key)
    /\ last.op = "values" =>
          /\ Len(last.ret) = Cardinality({k \in Keys : Visible(k)})
          /\ \A k \in Keys : Visible(k) => \E i \in 1..Len(last.ret) : last.ret[i] = written[k].val

\* a get at exactly t + ttl found the entry stored and returned the default
C2_Witness ==
    /\ last.op = "get"
    /\ "at_ttl" \in last.flags
    /\ last.ret[1] = NoneVal

\* C3: update(k, partial) returns false and leaves the registry as it was
\* when k is absent, when k's entry has expired, or when k's value is not
\* a dict.
C3_UpdateNoOp ==
    [][ LET k == last'.key
        IN  (/\ last'.op = "update"
             /\ \/ k \notin KeysOf(dict)
                \/ now - Entry(dict, k).ts >= Ttl
                \/ Entry(dict, k).val.kind # "dict")
            => (last'.ret[1] = FALSE /\ dict' = dict /\ now' = now) ]_vars

\* an update of an expired entry returned false and the entry is still stored
C3_Witness ==
    /\ last.op = "update"
    /\ "expired" \in last.flags
    /\ last.ret[1] = FALSE
    /\ HasKey(dict, last.key)

\* C4: set(k, v) of a new key while max_size live entries are stored evicts
\* exactly one entry, the one whose key entered the store first, whatever
\* was read by get or merged by update since; the other entries stay as
\* they were.
C4_EvictsOldestInserted ==
    [][ LET k == last'.key
            liveKeys == {j \in KeysOf(dict) : now - Entry(dict, j).ts < Ttl}
        IN  (/\ last'.op = "set"
             /\ k \notin KeysOf(dict)
             /\ Cardinality(liveKeys) = MaxSize)
            => /\ KeysOf(dict') = (KeysOf(dict) \ {Head(insOrder)}) \cup {k}
               /\ \A j \in KeysOf(dict) \ {Head(insOrder)} : Entry(dict', j) = Entry(dict, j) ]_vars

\* a set of a new key into a full store evicted the oldest key and kept
\* the newer one
C4_Witness ==
    /\ last.op = "set"
    /\ {"full", "new"} \subseteq last.flags
    /\ Len(dict) = MaxSize
    /\ dict[Len(dict)].key = last.key

(***************************************************************************)
(* Properties of the conversation context.                                 *)
(***************************************************************************)
\* the silence thresholds of levels 1, 2 and 3, in seconds
SilenceThreshold == <<6, 12, 18>>

\* the highest level whose threshold a silence of d seconds has reached
HighestReached(d) ==
    IF d = NoTime \/ d < SilenceThreshold[1] THEN 0
    ELSE CHOOSE l \in 1..3 :
             /\ d >= SilenceThreshold[l]
             /\ \A m \in 1..3 : d >= SilenceThreshold[m] => m <= l

FiredLevels == {fired[i] : i \in DOMAIN fired}

TimesFired(l) == Cardinality({i \in DOMAIN fired : fired[i] = l})

\* C11 as stated: once get_silence_response has been called at a silence of
\* d seconds, every threshold that d has reached has been fired by exactly
\* one call of the episode, none skipped.
C11_EveryReachedThresholdFired ==
    ctxLast.op = "get_silence_response" /\ ctxLast.duration # NoTime
        => \A l \in 1..3 :
               ctxLast.duration >= SilenceThreshold[l] => TimesFired(l) = 1

\* C11 amended: a call of get_silence_response returns the message of the
\* highest threshold the silence has reached when that threshold has not
\* been fired in this episode (thresholds below it that no call fired are
\* passed over), and None otherwise; so within an episode no threshold is
\* fired twice and the levels fired are strictly increasing.
C11_FiresHighestReachedOnce ==
    [][ ctxLast'.op = "get_silence_response"
            => LET top == HighestReached(ctxLast'.duration)
               IN  /\ IF top > 0 /\ top \notin FiredLevels
                      THEN /\ ctxLast'.ret = SilenceMessage(top)
                           /\ fired' = Append(fired, top)
                      ELSE /\ ctxLast'.ret = None
                           /\ fired' = fired
                   /\ \A i, j \in DOMAIN fired' :
                          i < j => fired'[i] < fired'[j] ]_vars

C11_Witness ==
    /\ ctxLast.op = "get_silence_response"
    /\ ctxLast.ret = SilenceMessage(3)
    /\ fired = <<1, 3>>

\* C12: silence_count is always one of 0, 1, 2, 3; it decreases only in
\* add_turn with role "user", which sets it to 0 and last_user_speech_time
\* to the current time; add_turn with another role changes neither.
C12_SilenceCountMonotone ==
    /\ [](silence_count \in {0, 1, 2, 3})
    /\ [][ /\ silence_count' < silence_count
               => ctxLast'.op = "add_turn" /\ ctxLast'.role = "user"
           /\ ctxLast'.op = "add_turn" /\ ctxLast'.role = "user"
               => silence_count' = 0 /\ last_user_speech_time' = ctxNow'
           /\ ctxLast'.op = "add_turn" /\ ctxLast'.role # "user"
               => UNCHANGED <<silence_count, last_user_speech_time>> ]_vars

C12_Witness ==
    /\ ctxLast.op = "add_turn"
    /\ ctxLast.role = "user"
    /\ ctxLast.before = 3
    /\ silence_count = 0
    /\ last_user_speech_time = ctxNow

Mentions(text, keywords) == \E keyword \in keywords : IsIn(keyword, lower(text))

\* C13: after add_turn("user", text), user_sentiment is determined by text
\* alone, with priority frustrated > confused > satisfied > neutral; add_turn
\* with another role leaves user_sentiment and clarification_count unchanged.
C13_SentimentByPriority ==
    /\ [](ctxLast.op = "add_turn" /\ ctxLast.role = "user"
            => LET frustration == Mentions(ctxLast.content, frustration_keywords)
                   confusion == Mentions(ctxLast.content, confusion_keywords)
                   satisfaction == Mentions(ctxLast.content, satisfaction_keywords)
               IN  /\ frustration => user_sentiment = "frustrated"
                   /\ ~frustration /\ confusion => user_sentiment = "confused"
                   /\ ~frustration /\ ~confusion /\ satisfaction
                          => user_sentiment = "satisfied"
                   /\ ~frustration /\ ~confusion /\ ~satisfaction
                          => user_sentiment = "neutral")
    /\ [][ ctxLast'.op = "add_turn" /\ ctxLast'.role # "user"
               => UNCHANGED <<user_sentiment, clarification_count>> ]_vars

C13_Witness ==
    /\ ctxLast.op = "add_turn"
    /\ ctxLast.role = "user"
    /\ Mentions(ctxLast.content, frustration_keywords)
    /\ Mentions(ctxLast.content, confusion_keywords)
    /\ Mentions(ctxLast.content, satisfaction_keywords)
    /\ user_sentiment = "frustrated"
    /\ clarification_count = 2

\* C14: get_adaptive_prompt_suffix changes no field of the context, returns
\* the same string when called again in the same state, and the string is
\* the concatenation of one fragment per active condition (sentiment not
\* neutral, clarification_count >= 3, retry_count >= 3), empty when none is.
C14_SuffixIsPure ==
    [][ ctxLast'.op = "get_adaptive_prompt_suffix"
            => /\ UNCHANGED <<history, user_sentiment, clarification_count,
                              retry_count, last_user_speech_time,
                              silence_count>>
               /\ ctxLast.op = "get_adaptive_prompt_suffix"
                      => ctxLast'.ret = ctxLast.ret
               /\ ctxLast'.ret =
                      (IF user_sentiment # "neutral"
                       THEN SuffixFragment(user_sentiment) ELSE "")
                      \o (IF clarification_count >= 3
                          THEN SuffixFragment("clarification") ELSE "")
                      \o (IF retry_count >= 3
                          THEN SuffixFragment("retry") ELSE "")
               /\ (user_sentiment = "neutral" /\ clarification_count < 3
                       /\ retry_count < 3) => ctxLast'.ret = "" ]_vars

C14_Witness ==
    /\ ctxLast.op = "get_adaptive_prompt_suffix"
    /\ user_sentiment = "confused"
    /\ clarification_count >= 3
    /\ retry_count >= 3
    /\ ctxLast.ret = SuffixFragment("confused") \o SuffixFragment("clarification")
                      \o SuffixFragment("retry")

(***************************************************************************)
(* Properties of the sanitizer.                                            *)
(***************************************************************************)
\* C15: the output of sanitize_for_tts holds none of "{", "[", "<" and no
\* "@"; an email address comes out with the word "at" in its place.
C15_NoMarkupInOutput ==
    sanStage \in {"once", "twice"}
        => /\ \A i \in DOMAIN sanOut : sanOut[i] \notin {"{", "[", "<", "@"}
           /\ sanStage = "once" /\ sanIn = <<"a", "@", "b", ".", "c", "o">>
                  => IsIn(<<"a", " ", "a", "t", " ", "b">>, sanOut)

C15_Witness ==
    /\ sanStage = "once"
    /\ sanIn = <<"<", "b", "@">>
    /\ sanOut = <<"b", " ", "a", "t">>

\* C16: sanitize_for_tts is idempotent: sanitizing its output again returns
\* that output unchanged.
C16_Idempotent == sanStage = "twice" => sanOut = sanIn

\* the names of the {name} placeholders of the template under validation
Placeholders ==
    {SubSeq(tplTemplate, i + 1, j - 1) :
        <<i, j>> \in {<<i, j>> \in (DOMAIN tplTemplate) \X (DOMAIN tplTemplate) :
                        /\ i + 1 < j
                        /\ tplTemplate[i] = "{"
                        /\ tplTemplate[j] = "}"
                        /\ \A k \in (i + 1)..(j - 1) : InClass("w", tplTemplate[k])}}

\* the template with each {name} placeholder replaced by params[name]
RECURSIVE Substituted(_)
Substituted(template) ==
    IF template = <<>> THEN <<>>
    ELSE LET closes == {j \in 3..Len(template) :
                          /\ template[j] = "}"
                          /\ \A k \in 2..(j - 1) : InClass("w", template[k])}
         IN  IF Head(template) = "{" /\ closes # {}
             THEN LET j == CHOOSE c \in closes : TRUE
                  IN  tplParams[SubSeq(template, 2, j - 1)]
                          \o Substituted(SubSeq(template, j + 1, Len(template)))
             ELSE <<Head(template)>> \o Substituted(Tail(template))

Fallbacks == {Fallback("missing"), Fallback("braces"), Fallback("error")}

\* C17: validate_template_variables never raises and its result holds no
\* "{" or "}"; the result is the template with its placeholders substituted
\* only when every {name} placeholder has a key in params, and one of the
\* fixed fallback utterances otherwise (as also when formatting fails or the
\* formatted text would still hold a brace).
C17_TemplateSafe ==
    tplStage = "done"
        => /\ tplOut.raised = ""
           /\ \A i \in DOMAIN tplOut.value : tplOut.value[i] \notin {"{", "}"}
           /\ tplOut.value \notin Fallbacks
                  => /\ Placeholders \subseteq DOMAIN tplParams
                     /\ tplOut.value = Substituted(tplTemplate)
           /\ ~(Placeholders \subseteq DOMAIN tplParams)
                  => tplOut.value \in Fallbacks

C17_Witness ==
    /\ tplStage = "done"
    /\ tplTemplate = <<"{", "n", "}", ".">>
    /\ <<"n">> \in DOMAIN tplParams
    /\ tplOut.value = <<"v", ".">>

(***************************************************************************)
(* Properties of the relays.                                               *)
(***************************************************************************)
Count(seq, Test(_)) == Len(SelectSeq(seq, Test))

\* C18: in both relays, until the agent has answered the settings with
\* SettingsApplied no task is started, no client frame is taken and nothing
\* but the settings has gone upstream; after an Error answer the duplex phase
\* is never entered, no task ever runs, and the one step left is the teardown
\* that closes the client socket.
C18_SetupGate ==
    /\ [](conn.relay \in Relays /\ conn.answer # "SettingsApplied"
            => /\ conn.phase # "duplex"
               /\ conn.task = NoTasks
               /\ conn.clientIn = <<>> /\ conn.agentIn = <<>>
               /\ conn.upstream = <<Settings>>)
    /\ [](conn.answer = "Error"
            => /\ conn.phase \in {"teardown", "closed"}
               /\ conn.phase = "closed" => conn.closes = 1 /\ ~conn.clientOpen)
    /\ [][conn.answer = "Error" /\ conn.phase = "teardown"
            => conn'.phase = "closed" /\ conn'.closes = 1 /\ ~conn'.clientOpen]_vars

C18_Witness ==
    /\ conn.answer = "Error"
    /\ conn.phase = "closed"
    /\ conn.closes = 1 /\ ~conn.clientOpen
    /\ conn.task = NoTasks

\* the client frames the client-side pump has handled to the end: all it has
\* taken, but the one it failed on
Handled ==
    IF conn.task["client"] = "failed"
    THEN SubSeq(conn.clientIn, 1, Len(conn.clientIn) - 1)
    ELSE conn.clientIn

IsAudioFrame(frame) == frame.type = "websocket_audio"

\* the binary messages sent upstream, the keepalive's silence left out
IsForwardedAudio(m) == m.kind = "bytes" /\ m.a # "silence"

\* C19: in the browser relay, the audio sent upstream is, one for one and in
\* order, the audio frames the pump has handled, each as the bytes its
\* payload encodes; and the client has been sent one websocket_ready for
\* each websocket_start it has sent.
C19_AudioForwardedInOrder ==
    conn.relay = "browser" =>
        LET frames == SelectSeq(Handled, IsAudioFrame)
            sent == SelectSeq(conn.upstream, IsForwardedAudio)
        IN  /\ Len(sent) = Len(frames)
            /\ \A i \in 1..Len(sent) : Base64[sent[i].a] = frames[i].a
            /\ Count(conn.downstream, LAMBDA m : m.type = "websocket_ready")
                 = Count(conn.clientIn, LAMBDA f : f.type = "websocket_start")

C19_Witness ==
    /\ conn.relay = "browser"
    /\ conn.clientIn = <<Json("websocket_audio", "YTI=", ""),
                         Json("websocket_audio", "YTE=", "")>>
    /\ SelectSeq(conn.upstream, IsForwardedAudio) = <<Bytes("a2"), Bytes("a1")>>

IsRequest(m) == m.kind = "text" /\ m.type = "FunctionCallRequest"

IsResponse(m) == m.kind = "text" /\ m.type = "FunctionCallResponse"

\* C20: the responses sent upstream are, one for one and in order, the
\* answers to the requests received, each carrying the id of its request; only
\* the last request may be without its response, while its handler runs or
\* once the agent's connection has closed.
C20_OneResponsePerRequest ==
    LET requests == SelectSeq(conn.agentIn, IsRequest)
        responses == SelectSeq(conn.upstream, IsResponse)
    IN  /\ Len(responses) <= Len(requests)
        /\ \A i \in 1..Len(responses) :
               i <= Len(requests) /\ Or(requests[i].a, requests[i].b) # Absent
                   => responses[i].a = Or(requests[i].a, requests[i].b)
        /\ Len(responses) < Len(requests)
               => /\ Len(responses) = Len(requests) - 1
                  /\ conn.task["agent"] = "handler" \/ ~conn.agentOpen

\* C21: when the function handler raises while the agent's connection is
\* open, the relay sends one FunctionCallResponse with the fixed apology under
\* the request's id, and the agent-side pump is back at its loop in the
\* duplex phase, ready for the next message of the agent.
C21_HandlerFailureSurvived ==
    [][ ( /\ conn.task["agent"] = "handler"
          /\ conn'.task["agent"] # "handler"
          /\ conn'.outcome = "raises"
          /\ conn.agentOpen )
        => /\ conn'.upstream =
                Append(conn.upstream, FunctionCallResponse(conn.function_id, ErrorOutput))
           /\ conn'.task["agent"] = "running"
           /\ conn'.phase = "duplex" ]_vars

\* the pump took a message of the agent after a request whose handler raised
C21_Witness ==
    /\ conn.outcome = "raises"
    /\ Len(conn.agentIn) = 2
    /\ IsRequest(conn.agentIn[1])
    /\ conn.agentIn[2] = Json("AgentStartedSpeaking", "", "")
    /\ \E i \in DOMAIN conn.upstream : conn.upstream[i].b = ErrorOutput
    /\ conn.task["agent"] = "running"

\* what the sanitizer makes of the texts the relay is given to speak
SanitizedTexts == {sanitize_for_tts(text) : text \in {RawSpeak, ErrorSpeak}}

TakesBargeIn ==
    /\ conn'.agentIn = Append(conn.agentIn, Json("UserStartedSpeaking", "", ""))
    /\ conn.clientOpen

\* the frame that tells the client to drop the audio it has buffered
IsClear(frame, relay) ==
    frame.type = (IF relay = "browser" THEN "user_started_speaking" ELSE "clear")

ClearSent ==
    /\ Len(conn'.downstream) = Len(conn.downstream) + 1
    /\ SubSeq(conn'.downstream, 1, Len(conn.downstream)) = conn.downstream
    /\ IsClear(conn'.downstream[Len(conn'.downstream)], conn.relay)

\* C23 as stated: every UserStartedSpeaking taken in the duplex phase puts a
\* buffer-clear frame on the client's socket in the same step of the pump,
\* hence before any audio frame the pump sends later.
C23_ClearOnEveryBargeIn == [][TakesBargeIn => ClearSent]_vars

\* C23: the browser relay answers every UserStartedSpeaking with a
\* user_started_speaking frame; the telephony relay answers it with a clear
\* frame that carries the stream id once a start event has given one, and
\* with nothing, the pump going on, as long as it has none.
C23_ClearOnBargeIn ==
    [][ TakesBargeIn =>
          IF conn.relay = "browser" \/ conn.stream_sid # Absent
          THEN /\ ClearSent
               /\ conn.relay = "telephony"
                     => conn'.downstream[Len(conn'.downstream)].a = conn.stream_sid
          ELSE /\ conn'.downstream = conn.downstream
               /\ conn'.task["agent"] = "running" ]_vars

\* the telephony relay has sent a clear frame for the stream of the call
C23_Witness ==
    /\ conn.relay = "telephony"
    /\ conn.agentIn = <<Json("UserStartedSpeaking", "", "")>>
    /\ conn.downstream = <<Json("clear", "MZ1", "")>>

\* the agent-side pump takes an Error message of the agent with the code
\* while the client's socket is open
TakesError(code) ==
    /\ conn'.agentIn = Append(conn.agentIn, Json("Error", code, ""))
    /\ conn.clientOpen

ErrorEvent == Json("error", "Deepgram error", "")

\* C24 as stated: an Error with code CLIENT_MESSAGE_TIMEOUT puts nothing on
\* the client's socket, an Error with another code puts exactly one error
\* event there, and the pump goes on in both cases.
C24_ErrorsSurfaced ==
    [][ /\ TakesError("CLIENT_MESSAGE_TIMEOUT")
          => conn'.downstream = conn.downstream /\ conn'.task["agent"] = "running"
        /\ TakesError("FAILED")
          => /\ conn'.downstream = Append(conn.downstream, ErrorEvent)
             /\ conn'.task["agent"] = "running" ]_vars

\* C24: in the browser relay an Error with code CLIENT_MESSAGE_TIMEOUT puts
\* nothing on the client's socket and an Error with another code puts exactly
\* one error event there; in the telephony relay no Error puts anything
\* there; the pump goes on in every case.
C24_ErrorsSurfacedToBrowser ==
    [][ \A code \in {"CLIENT_MESSAGE_TIMEOUT", "FAILED"} :
          TakesError(code)
            => /\ conn'.downstream =
                    IF conn.relay = "browser" /\ code # "CLIENT_MESSAGE_TIMEOUT"
                    THEN Append(conn.downstream, ErrorEvent)
                    ELSE conn.downstream
               /\ conn'.task["agent"] = "running" ]_vars

\* the browser relay was given a failure and then a timeout, showed the
\* browser the failure only, and its pump is running
C24_Witness ==
    /\ conn.relay = "browser"
    /\ conn.agentIn = <<Json("Error", "FAILED", ""), Json("Error", "CLIENT_MESSAGE_TIMEOUT", "")>>
    /\ conn.downstream = <<Json("welcome", "", ""), ErrorEvent>>
    /\ conn.task["agent"] = "running"

IsInject(m) == m.kind = "text" /\ m.type = "InjectAgent"

\* the texts the watchdog has injected since the latest user turn
Injected ==
    LET since == SubSeq(conn.upstream, conn.episode + 1, Len(conn.upstream))
        injects == SelectSeq(since, IsInject)
    IN  [i \in DOMAIN injects |-> injects[i].a]

Escalation == <<SilenceMessage(1), SilenceMessage(2), SilenceMessage(3)>>

\* the latest user turn is at least so many seconds old, and the poll due at
\* this second, if any, has been made and its send has returned
Silent(seconds) ==
    /\ conn.spokeAt # NoTime
    /\ ctxNow - conn.spokeAt >= seconds
    /\ conn.task["watchdog"] = "running" => conn.slept < PollSeconds
    /\ conn.task["watchdog"] # "sending"

\* C25 as stated, for a turn the context recorded and with the agent's
\* connection open: once the latest user turn is 19 seconds old, the watchdog
\* has injected the three escalation texts in their order since that turn,
\* and nothing else, and has terminated.
C25_ThreeEscalationsAfterAnyTurn ==
    Silent(19) /\ last_user_speech_time = conn.spokeAt /\ conn.agentOpen
        => Injected = Escalation /\ conn.task["watchdog"] = "ended"

\* the watchdog was running when the user spoke, the context recorded the
\* turn (the call's id was known), and the agent's connection is open
Watching ==
    /\ conn.watched
    /\ last_user_speech_time = conn.spokeAt
    /\ conn.agentOpen

\* the watchdog injects the text of the level
Injects(level) ==
    conn'.upstream = Append(conn.upstream, Json("InjectAgent", SilenceMessage(level), ""))

\* C25: a user turn that the watchdog, still running, and the context have
\* witnessed, and that is followed by 20 seconds without a user turn while
\* the agent's connection stays open, gets exactly the 6 s, 12 s and 18 s
\* texts in that order, after which the watchdog has terminated; each text is
\* injected at the first poll at or after its threshold, that is less than
\* one poll interval of 2 s after it; and whatever the watchdog has injected
\* since a user turn is a prefix of the three texts.
C25_EscalatesWhileWatching ==
    /\ [](Watching /\ Silent(20)
            => Injected = Escalation /\ conn.task["watchdog"] = "ended")
    /\ [](\E n \in 0..3 : Injected = SubSeq(Escalation, 1, n))
    /\ [][ \A level \in 1..3 :
              Injects(level)
                => /\ ctxNow - conn.spokeAt >= SilenceThreshold[level]
                   /\ ctxNow - conn.spokeAt < SilenceThreshold[level] + 2 ]_vars

\* the third text went out 19 seconds after the user's turn, the first poll
\* after the 18 s threshold, and the watchdog is over
C25_Witness ==
    /\ Watching
    /\ ctxNow - conn.spokeAt = 19
    /\ Injected = Escalation
    /\ conn.task["watchdog"] = "ended"

\* the registry holds an entry under the id of the connection's call
Registered == \E i \in DOMAIN dict : dict[i].key = CallSid

\* C26: the finally clause runs once for a connection, and once it has run
\* the client's socket is closed and the registry holds no entry under the
\* id of the session, however the run ended.
C26_TeardownCleansUp ==
    /\ conn.closes <= 1
    /\ conn.phase = "closed"
         => /\ conn.closes = 1
            /\ ~conn.clientOpen
            /\ conn.relay = "telephony" => ~Registered

\* the client and the agent have both left while the pumps were running
BothGone == conn.phase = "duplex" /\ ~conn.clientOpen /\ ~conn.agentOpen

\* C27, in the case that favours it most: once the client's socket and the
\* agent's connection are both gone in the duplex phase, every task ends, the
\* awaited group completes and the relay reaches its teardown.
C27_TeardownReached == BothGone ~> conn.phase \in {"teardown", "closed"}

\* the sink took the write
Written(answer) == answer \in {"200", "201"}

\* C28: the call-log write is attempted until the sink takes it, three
\* times at most: a write that fails (the POST raises or is answered with
\* another status than 200 or 201) is followed by another attempt unless it
\* was the third; and the task never ends with an exception.
C28_LogWriteRetried ==
    conn.log.state = "done" /\ conn.log.configured
        => /\ conn.log.posts =
                IF \E i \in 1..3 : Written(conn.log.answers[i])
                THEN CHOOSE i \in 1..3 :
                         /\ Written(conn.log.answers[i])
                         /\ \A j \in 1..(i - 1) : ~Written(conn.log.answers[j])
                ELSE 3
           /\ ~conn.log.raised
           /\ conn.closes = 1

Markers == {i \in DOMAIN conn.transcript : conn.transcript[i] = "system"}

\* C29: the transcript never holds more than MAX_TRANSCRIPT_ENTRIES turns
\* and one marker; a marker stands only behind the last kept turn; and once
\* more turns have come than the cap allows, conversation texts or function
\* results, the marker is there.
C29_TranscriptTruncatedOnce ==
    /\ Len(conn.transcript) <= MAX_TRANSCRIPT_ENTRIES + 1
    /\ Markers \subseteq {MAX_TRANSCRIPT_ENTRIES + 1}
    /\ conn.turns > MAX_TRANSCRIPT_ENTRIES => Markers = {MAX_TRANSCRIPT_ENTRIES + 1}

\* the types of client frames the pumps have a branch for
Vocabulary(relay) ==
    IF relay = "browser"
    THEN {"websocket_audio", "websocket_transcript", "websocket_start",
          "keepalive", "silence_detected"}
    ELSE {"start", "media", "stop", "mark"}

\* the client-side pump takes a JSON frame of a type it has no branch for
TakesUnknown ==
    /\ Len(conn'.clientIn) = Len(conn.clientIn) + 1
    /\ LET frame == conn'.clientIn[Len(conn'.clientIn)]
       IN  frame # NotJson /\ frame.type \notin Vocabulary(conn.relay)

\* C30: a client frame of a type outside the vocabulary changes nothing but
\* the pump's position in its input: nothing goes upstream or to the client,
\* the pump keeps running, the registry and the context are untouched.
C30_UnknownFrameIgnored ==
    [][ TakesUnknown
          => /\ conn' = [conn EXCEPT !.clientIn = conn'.clientIn]
             /\ conn'.task["client"] = "running"
             /\ UNCHANGED <<dict, ctxVars>> ]_vars

\* after a frame of an unknown type the browser's audio was forwarded
C30_Witness ==
    /\ conn.clientIn = <<Json("ping", "", ""), Json("websocket_audio", "YTE=", "")>>
    /\ conn.upstream = <<Settings, Bytes("a1")>>
    /\ conn.task["client"] = "running"


\* the status the registry shows for the call, if it holds the call
StatusIn(d) == IF HasKey(d, CallSid) THEN Entry(d, CallSid).val.f["status"] ELSE Absent

\* how far along initiated -> connected -> completed | failed a status is;
\* the provider's "ringing" and "in-progress" stand where "initiated" and
\* "connected" do
Rank(status) ==
    CASE status \in {"initiated", "ringing"} -> 0
      [] status \in {"connected", "in-progress"} -> 1
      [] status \in {"completed", "failed"} -> 2
      [] OTHER -> 0

\* C31: while the registry holds the call's entry, no step takes its status
\* to an earlier stage of initiated -> connected -> completed | failed.
C31_StatusOnlyForward ==
    [][StatusIn(dict) # Absent /\ StatusIn(dict') # Absent
           => Rank(StatusIn(dict')) >= Rank(StatusIn(dict))]_vars

\* C32: the loop over the catalogue's functions whose name starts with
\* "initiate_" finds none that lacks user_intent among its properties or
\* among its required parameters.
C32_InitiateRequiresUserIntent ==
    catPrefix = "initiate" /\ catParam = "user_intent" => catFailed = 0

\* the loop has looked at the whole catalogue and met the six initiate functions
C32_Witness ==
    /\ catPrefix = "initiate" /\ catParam = "user_intent"
    /\ catIndex = Len(FUNCTION_DEFINITIONS)
    /\ catPassed = 6

IsPrefix(s, t) == Len(s) <= Len(t) /\ SubSeq(t, 1, Len(s)) = s

\* the step takes a frame of the agent
ReadsAgentFrame == conn'.agentIn # conn.agentIn

\* C33: the agent-side pump handles one frame at a time in arrival order:
\* while the handler of a FunctionCallRequest is awaited no frame is read;
\* when the pump goes back to reading, the FunctionCallResponse for that
\* request is the next thing that went upstream; the transcript only grows
\* at its end, by one entry per step, and the entry is the turn of the frame
\* read in that step (or the truncation marker), or the function turn of the
\* handler that returned in that step.
C33_FramesOneAtATime ==
    [][/\ conn.task["agent"] = "handler" => ~ReadsAgentFrame
       /\ conn.task["agent"] = "handler" /\ conn'.task["agent"] = "running"
              => /\ Len(conn'.upstream) > Len(conn.upstream)
                 /\ conn'.upstream[Len(conn.upstream) + 1].type = "FunctionCallResponse"
                 /\ conn'.upstream[Len(conn.upstream) + 1].a = conn.function_id
       /\ IsPrefix(conn.transcript, conn'.transcript)
       /\ conn'.transcript # conn.transcript
              => /\ Len(conn'.transcript) = Len(conn.transcript) + 1
                 /\ LET entry == conn'.transcript[Len(conn'.transcript)]
                        frame == conn'.agentIn[Len(conn'.agentIn)]
                    IN  IF ReadsAgentFrame
                        THEN /\ frame.type = "ConversationText"
                             /\ entry \in {frame.a, "system"}
                        ELSE /\ conn.task["agent"] = "handler"
                             /\ entry = "function"]_vars

\* a function call was answered and logged, then a user turn was read and logged
C33_Witness ==
    /\ conn.transcript = <<"function", "user">>
    /\ Len(conn.agentIn) = 2
    /\ conn.agentIn[1].type = "FunctionCallRequest"
    /\ \E i \in DOMAIN conn.upstream : conn.upstream[i].type = "FunctionCallResponse"

\* the watchdog has injected the 18 s hand-off text
HandedOff ==
    \E i \in DOMAIN conn.upstream :
        conn.upstream[i] = Json("InjectAgent", SilenceMessage(3), "")

\* C34: once the watchdog has injected the 18 s hand-off text it has stopped
\* watching when its send is over, and no step injects another text.
C34_NothingAfterHandOff ==
    /\ [](HandedOff => conn.task["watchdog"] \in {"sending", "ended"})
    /\ [][HandedOff
            => SelectSeq(conn'.upstream, IsInject) = SelectSeq(conn.upstream, IsInject)]_vars
\* C35: whenever call_n8n_action waits, it waits min(BASE_DELAY_MS * 2^a,
\* MAX_DELAY_MS) ms after failed attempt a, which is 500, 1000, 2000 ms and
\* never more than MAX_DELAY_MS, and another attempt follows the wait: there
\* is no wait after the final attempt, nor when the call has returned.
C35_DelayOnlyBetweenAttempts ==
    n8nPc = "sleep" =>
        /\ Len(issued) = attempt + 1
        /\ delay = <<500, 1000, 2000>>[attempt + 1]
        /\ delay = Min(BASE_DELAY_MS * (2 ^ attempt), MAX_DELAY_MS)
        /\ delay <= MAX_DELAY_MS
        /\ attempt + 1 < MAX_RETRIES

\* C36: update(k, partial) on a live dict entry returns true, sets exactly
\* the fields named in partial, and leaves alone the entry's other fields,
\* its timestamp and its place in the eviction order, and every other entry;
\* so the entry still expires ttl after its last set.
C36_UpdateSetsOnlyNamedFields ==
    [][LET k == last'.key IN
        (/\ last'.op = "update"
         /\ HasKey(dict, k) /\ IsLive(Entry(dict, k).ts, now) /\ IsDict(Entry(dict, k).val))
        => /\ last'.ret = <<TRUE>>
           /\ Len(dict') = Len(dict)
           /\ \A i \in 1..Len(dict) :
                 /\ dict'[i].key = dict[i].key
                 /\ dict'[i].ts = dict[i].ts
                 /\ dict[i].key # k => dict'[i] = dict[i]
           /\ IsDict(Entry(dict', k).val)
           /\ \E partial \in UpdateArgs : \A f \in Fields :
                 Entry(dict', k).val.f[f] =
                     IF partial[f] # Absent THEN partial[f] ELSE Entry(dict, k).val.f[f]
           /\ Entry(dict', k).ts = written'[k].ts
           /\ TTLDict_get_ret(dict', k, written'[k].ts + Ttl) = NoneVal
           /\ insOrder' = insOrder
      ]_vars

\* an update has just returned true on the entry that entered the store
\* first, which holds a field the update did not name, with another entry
\* stored after it
C36_Witness ==
    /\ last.op = "update" /\ last.ret = <<TRUE>>
    /\ HasKey(dict, last.key)
    /\ dict[1].key = last.key
    /\ Entry(dict, last.key).val.f["status"] = "initiated"
    /\ Entry(dict, last.key).val.f["duration"] = "7"
    /\ Len(dict) >= 2

\* C37: set(k, v) on a key that is stored and live replaces that entry's
\* value and timestamp and removes no other live key, also when max_size
\* entries are stored.
C37_OverwriteEvictsNothing ==
    [][LET k == last'.key
           liveKeys == {j \in KeysOf(dict) : IsLive(Entry(dict, j).ts, now)}
       IN  (last'.op = "set" /\ k \in liveKeys)
           => /\ HasKey(dict', k)
              /\ Entry(dict', k).ts = now'
              /\ Entry(dict', k).val \in SetVals
              /\ liveKeys \subseteq KeysOf(dict')
      ]_vars

\* C38: the action, session_id and timestamp of the payload are the ones
\* call_n8n_action set itself (its arguments action and session_id and the
\* time it read), whatever keys the caller's parameters hold.
C38_TaggingFieldsNotOverridden ==
    n8nPayload # NoPayload =>
        /\ n8nPayload["action"] = action
        /\ n8nPayload["session_id"] = session_id
        /\ n8nPayload["timestamp"] = OwnTimestamp

\* C39: after a telephony session's teardown no ConversationContext is
\* stored for its id (get_context would then build a fresh one): the stored
\* contexts are those of live sessions only.
C39_NoContextAfterTeardown ==
    conn.relay = "telephony" /\ conn.phase = "closed" => conn.contexts = {}

\* C40: for one call whose 'completed' status callback is delivered once,
\* the call-log sink is handed at most one record, counting the task the
\* callback creates and the task the relay's teardown creates.
C40_AtMostOneLogRecord ==
    conn.cbLogged <= 1 => conn.logged + conn.cbLogged <= 1

====
